---- MODULE Spec2Model ----
(***************************************************************************)
(* Price-extraction pipeline of phpricetracker: the DA (NCR, RX, generic), *)
(* DOE and DTI bulletin parsers and the batch orchestrators around them.   *)
(*                                                                         *)
(* Text is modelled character by character: a string is a sequence of      *)
(* one-character strings, and the regular expressions of the source are    *)
(* values interpreted by a matcher (Exec, ExecAll) with the leftmost,      *)
(* greedy-first semantics of the JavaScript engine.  Prices are integers   *)
(* in hundredths (parseFloat of a numeral with at most two decimals).      *)
(***************************************************************************)
EXTENDS Integers, Sequences, FiniteSets, TLC

VARIABLES
    pc,               \* "idle", "loop" (a parser is in its line loop) or "returned"
    fn,               \* the parser called: "NCR", "RX", "Generic", "DOE" or "DTI"
    region,           \* argument region of the call
    date,             \* argument date of the call
    debug,            \* argument debug of the call
    lines,            \* the lines of the text of the call
    i,                \* index of the next line (from 1; the source's i + 1)
    currentMarket,    \* parseNCRFormat: let currentMarket
    currentCategory,  \* parseRXFormat: let currentCategory
    currentCommodity, \* parseRXFormat: let currentCommodity
    currentFuelType,  \* DOE extractPricesFromText: let currentFuelType
    results,          \* const results: the single-price records pushed so far
    priceRanges,      \* const priceRanges: the range records pushed so far
    consoleLog,       \* the number of console.log calls the call has made
    stale,            \* history: an earlier call of this parser had left its rolling
                      \* state set when this call started
    bpc,              \* "idle", "loop" (an orchestrator is in its file loop) or "returned"
    bfn,              \* the orchestrator called: "DA" (parseAllDAPDFs) or "DOE" (parseAllDOEPDFs)
    pdfs,             \* const pdfs = getAllPDFs(): the files discovered, in order
    k,                \* index (from 1) of the next file of  for (const pdf of pdfs)
    allResults,       \* const allResults
    allPriceRanges,   \* const allPriceRanges
    consoleError,     \* what console.error has been called with, in order
    op,               \* the utility function called last ("none" before any call)
    arg,              \* its argument
    ret,              \* what it returned
    rateLimitStore,   \* const rateLimitStore = new Map(): key -> {count, resetTime}
    now,              \* Date.now()
    req,              \* the request the server handled last
    res,              \* the response to it, and the route handler it reached
    passed,           \* history: per key and limiter, the requests the limiter has passed
                      \* to next() since the key's record was last reset
    prisma,           \* the database: the tables commodities and prices
    rpc,              \* runAllScrapers: "idle", "loop" (in for (const scraper of scrapers)) or "done"
    saveToDb,         \* runAllScrapers: parameter saveToDb
    scraper,          \* runAllScrapers: index in scrapers of the next scraper to run
    runResults,       \* runAllScrapers: const results
    scraped,          \* history: what scrape() did in this run, scraper by scraper
    saves,            \* history: the saveToDatabase calls of this run: prices, rows before,
                      \* rows after, count returned
    outputDir,        \* OUTPUT_DIR: the record lists of its files, by name
    mainRun,          \* history: the agency and the records of the last run of a parser's main
    redisConnected,   \* cache.js: let redisConnected
    redisData,        \* the keys of the Redis server: key -> JSON text and expiry
    nodeCache,        \* const nodeCache: key -> value and expiry
    cacheStats,       \* let cacheStats = { hits, misses, sets, deletes }
    clock,            \* the time, in the unit of the time to live
    cacheCall,        \* the call of cacheUtils under way or, at stage "done", the last one;
                      \* rejected: its Redis command was rejected; expected: for a get,
                      \* the value of lastSet under the key when the get completed
    httpRes,          \* what getLatestPrices answered last
    cacheCalls,       \* history: the calls of cacheUtils made
    lastSet,          \* history: per key, the value and expiry of the last completed set,
                      \* unless a del of the key or a flush has completed since
    getCalls,         \* history: the get calls completed since the last flush
    setCalls,         \* history: the set calls completed since the last flush
    hour,             \* the time: hours since a midnight of Asia/Manila
    timezone,         \* the offset of the server's local time from Asia/Manila, in hours
    scheduled,        \* scheduleScrapers has registered the cron job
    cronRan,          \* the hour of the last run of the cron job
    lastScraperRun,   \* global.lastScraperRun
    nextScraperRun,   \* global.nextScraperRun
    statusRes         \* what GET /v1/admin/scrape/status answered last

callVars == <<pc, fn, region, date, debug, consoleLog, lines, i, currentMarket, currentCategory,
              currentCommodity, currentFuelType, results, priceRanges, stale>>
batchVars == <<bpc, bfn, pdfs, k, allResults, allPriceRanges, consoleError>>
utilVars == <<op, arg, ret>>
webVars == <<rateLimitStore, now, req, res, passed>>
scrapeVars == <<prisma, rpc, saveToDb, scraper, runResults, scraped, saves>>
mainVars == <<outputDir, mainRun>>
cacheVars == <<redisConnected, redisData, nodeCache, cacheStats, clock, cacheCall, httpRes,
               cacheCalls, lastSet, getCalls, setCalls>>
cronVars == <<hour, timezone, scheduled, cronRan, lastScraperRun, nextScraperRun, statusRes>>
svcVars == <<scrapeVars, mainVars, cacheVars, cronVars>>
exceptScrape == <<callVars, batchVars, utilVars, webVars, mainVars, cacheVars, cronVars>>
exceptMain == <<callVars, batchVars, utilVars, webVars, scrapeVars, cacheVars, cronVars>>
exceptCache == <<callVars, batchVars, utilVars, webVars, scrapeVars, mainVars, cronVars>>
exceptCron == <<callVars, batchVars, utilVars, webVars, scrapeVars, mainVars, cacheVars>>
vars == <<callVars, batchVars, utilVars, webVars, svcVars>>

-----------------------------------------------------------------------------
(* Characters *)

Digits == {"0","1","2","3","4","5","6","7","8","9"}
LowerSeq == <<"a","b","c","d","e","f","g","h","i","j","k","l","m",
              "n","o","p","q","r","s","t","u","v","w","x","y","z">>
UpperSeq == <<"A","B","C","D","E","F","G","H","I","J","K","L","M",
              "N","O","P","Q","R","S","T","U","V","W","X","Y","Z">>
LowerLetters == {LowerSeq[n] : n \in 1..26}
UpperLetters == {UpperSeq[n] : n \in 1..26}
Letters == LowerLetters \cup UpperLetters
WordChars == Letters \cup Digits \cup {"_"}
WhiteSpace == {" ", "\t"}

\* the characters of a string literal, one by one
Str(s) == [n \in 1..Len(s) |-> SubSeq(s, n, n)]

DigitSeq == <<"0","1","2","3","4","5","6","7","8","9">>
DigitVal(c) == (CHOOSE n \in 1..10 : DigitSeq[n] = c) - 1

LowerOf == [c \in UpperLetters |-> LowerSeq[CHOOSE n \in 1..26 : UpperSeq[n] = c]]
UpperOf == [c \in LowerLetters |-> UpperSeq[CHOOSE n \in 1..26 : LowerSeq[n] = c]]

\* String.prototype.toLowerCase / toUpperCase
toLowerCase(s) == [n \in 1..Len(s) |-> IF s[n] \in UpperLetters THEN LowerOf[s[n]] ELSE s[n]]
toUpperCase(s) == [n \in 1..Len(s) |-> IF s[n] \in LowerLetters THEN UpperOf[s[n]] ELSE s[n]]

\* String.prototype.includes
includes(s, sub) ==
    \E b \in 1..(Len(s) - Len(sub) + 1) : SubSeq(s, b, b + Len(sub) - 1) = sub

\* String.prototype.trim
RECURSIVE trimStart(_)
trimStart(s) == IF s # <<>> /\ Head(s) \in WhiteSpace THEN trimStart(Tail(s)) ELSE s
RECURSIVE trimEnd(_)
trimEnd(s) ==
    IF s # <<>> /\ s[Len(s)] \in WhiteSpace THEN trimEnd(SubSeq(s, 1, Len(s) - 1)) ELSE s
trim(s) == trimEnd(trimStart(s))

\* parseFloat on a string: NaN unless the string starts with a digit; otherwise
\* the value, in hundredths, of the longest prefix  digits [ "." digits ].
RECURSIVE DigitsPrefix(_)
DigitsPrefix(s) ==
    IF s # <<>> /\ Head(s) \in Digits THEN <<Head(s)>> \o DigitsPrefix(Tail(s)) ELSE <<>>
RECURSIVE DecimalValue(_)
DecimalValue(ds) ==
    IF ds = <<>> THEN 0 ELSE 10 * DecimalValue(SubSeq(ds, 1, Len(ds) - 1)) + DigitVal(ds[Len(ds)])
isNaNparseFloat(s) == s = <<>> \/ Head(s) \notin Digits
parseFloat(s) ==
    LET whole == DigitsPrefix(s)
        after == SubSeq(s, Len(whole) + 1, Len(s))
        frac  == IF after # <<>> /\ Head(after) = "." THEN DigitsPrefix(Tail(after)) ELSE <<>>
        d1    == IF Len(frac) >= 1 THEN DigitVal(frac[1]) ELSE 0
        d2    == IF Len(frac) >= 2 THEN DigitVal(frac[2]) ELSE 0
    IN  100 * DecimalValue(whole) + 10 * d1 + d2

-----------------------------------------------------------------------------
(* Regular expressions *)

(***************************************************************************)
(* Every regular expression of the parsers is a concatenation of parts,    *)
(* each an expression without captures inside it, captured as group g      *)
(* (g = 0: not captured) and possibly optional (the part followed by ?).   *)
(* No expression has a backreference or a lookaround, so whether the rest  *)
(* of an expression matches depends only on the position reached.  The     *)
(* match the backtracking engine returns is then: at each part, the first  *)
(* alternative, in the engine's order (greedy: longest first; lazy:        *)
(* shortest first; alternation: left to right), from whose end the rest    *)
(* of the expression can match.                                            *)
(***************************************************************************)

Set(S)         == [t |-> "set", s |-> S]                            \* [...]
Run(S, lo, hi) == [t |-> "run", s |-> S, lo |-> lo, hi |-> hi]      \* [...]{lo,hi}
Plus(S)        == [t |-> "run", s |-> S, lo |-> 1, hi |-> -1]       \* [...]+
Star(S)        == [t |-> "run", s |-> S, lo |-> 0, hi |-> -1]       \* [...]*
LazyStar(S)    == [t |-> "lazy", s |-> S]                           \* [...]*?
Word(w)        == [t |-> "word", w |-> w, i |-> FALSE]              \* literal text
WordI(w)       == [t |-> "word", w |-> w, i |-> TRUE]               \* literal text under /i
Cat(rs)        == [t |-> "cat", rs |-> rs]                          \* r1 r2 ...
Alt(rs)        == [t |-> "alt", rs |-> rs]                          \* r1 | r2 | ...
Opt(r)         == [t |-> "opt", r |-> r]                            \* (?:r)?
Bol            == [t |-> "bol"]                                     \* ^
Eol            == [t |-> "eol"]                                     \* $

Part(r)        == [g |-> 0, r |-> r, opt |-> FALSE]                 \* r
Grp(g, r)      == [g |-> g, r |-> r, opt |-> FALSE]                 \* (r), group g
OptGrp(g, r)   == [g |-> g, r |-> r, opt |-> TRUE]                  \* (r)?, group g

\* the length of the longest run of characters of S in s from position p
RECURSIVE RunLength(_, _, _)
RunLength(S, s, p) ==
    IF p > Len(s) \/ s[p] \notin S THEN 0 ELSE 1 + RunLength(S, s, p + 1)

\* whether the text w stands in s at position p
WordAt(w, ci, s, p) ==
    /\ p + Len(w) - 1 <= Len(s)
    /\ \A n \in 1..Len(w) :
         IF ci THEN toLowerCase(<<s[p + n - 1]>>) = toLowerCase(<<w[n]>>)
         ELSE s[p + n - 1] = w[n]

\* AllEnds(r, s, p): the positions at which a match of r that starts at p can
\* end, in the order in which the backtracking engine tries them.
RECURSIVE AllEnds(_, _, _)
RECURSIVE EndsFromEach(_, _, _)
RECURSIVE CatEnds(_, _, _, _)
RECURSIVE AltEnds(_, _, _, _)
AllEnds(r, s, p) ==
    CASE r.t = "set" -> IF p <= Len(s) /\ s[p] \in r.s THEN <<p + 1>> ELSE <<>>
      [] r.t = "run" ->
           LET len == RunLength(r.s, s, p)
               most == IF r.hi >= 0 /\ r.hi < len THEN r.hi ELSE len
           IN IF most < r.lo THEN <<>>
              ELSE [n \in 1..(most - r.lo + 1) |-> p + most - n + 1]
      [] r.t = "lazy" ->
           [n \in 1..(RunLength(r.s, s, p) + 1) |-> p + n - 1]
      [] r.t = "num" ->
           \* \d+(?:\.\d{1,2})? : all the digits and the longest fraction first, then
           \* the shorter fraction, then no fraction, then fewer and fewer digits
           LET whole == RunLength(Digits, s, p)
               after == IF p + whole <= Len(s) /\ s[p + whole] = "."
                        THEN RunLength(Digits, s, p + whole + 1) ELSE 0
               fraction == IF after > 2 THEN 2 ELSE after
           IN IF whole = 0 THEN <<>>
              ELSE [n \in 1..fraction |-> p + whole + 1 + fraction - n + 1]
                   \o [n \in 1..whole |-> p + whole - n + 1]
      [] r.t = "word" -> IF WordAt(r.w, r.i, s, p) THEN <<p + Len(r.w)>> ELSE <<>>
      [] r.t = "cat" -> CatEnds(r.rs, 1, s, <<p>>)
      [] r.t = "alt" -> AltEnds(r.rs, 1, s, p)
      [] r.t = "opt" -> AllEnds(r.r, s, p) \o <<p>>
      [] r.t = "bol" -> IF p = 1 THEN <<p>> ELSE <<>>
      [] r.t = "eol" -> IF p = Len(s) + 1 THEN <<p>> ELSE <<>>
EndsFromEach(r, s, ps) ==
    IF ps = <<>> THEN <<>> ELSE AllEnds(r, s, Head(ps)) \o EndsFromEach(r, s, Tail(ps))
CatEnds(rs, j, s, ps) ==
    IF j > Len(rs) THEN ps ELSE CatEnds(rs, j + 1, s, EndsFromEach(rs[j], s, ps))
AltEnds(rs, j, s, p) ==
    IF j > Len(rs) THEN <<>> ELSE AllEnds(rs[j], s, p) \o AltEnds(rs, j + 1, s, p)

\* the alternatives of a part at p in the engine's order: where it ends and
\* what its group captures (<<0, 0>>: the group did not participate)
Candidates(part, s, p) ==
    LET Of(es) == [n \in 1..Len(es) |-> [e |-> es[n], cap |-> <<p, es[n]>>]]
    IN Of(AllEnds(part.r, s, p))
       \o (IF part.opt THEN <<[e |-> p, cap |-> <<0, 0>>]>> ELSE <<>>)

\* GoodFrom(parts, 1, s)[j]: the positions from which parts j, j+1, ... all match
RECURSIVE GoodFrom(_, _, _)
GoodFrom(parts, j, s) ==
    LET Reaches(cs, later) == \E n \in DOMAIN cs : cs[n].e \in later
        Before(later) ==
            (IF later[1] = {} THEN <<{}>>
             ELSE <<{p \in 1..(Len(s) + 1) : Reaches(Candidates(parts[j], s, p), later[1])}>>)
            \o later
    IN IF j > Len(parts) THEN <<1..(Len(s) + 1)>>
       ELSE Before(GoodFrom(parts, j + 1, s))

MaxGroups == 8
NoCaps == [n \in 1..MaxGroups |-> <<0, 0>>]
NoMatch == [ok |-> FALSE]

\* the engine's walk through the parts from position p, good = GoodFrom(parts, 1, s):
\* at each part the first alternative from whose end the rest matches; no match
\* where the parts do not match from p
RECURSIVE Walk(_, _, _, _, _, _)
Walk(parts, good, j, s, p, caps) ==
    LET First(cs) == CHOOSE n \in DOMAIN cs :
                         /\ cs[n].e \in good[j + 1]
                         /\ \A u \in 1..(n - 1) : cs[u].e \notin good[j + 1]
        Take(c) == Walk(parts, good, j + 1, s, c.e,
                        IF parts[j].g = 0 THEN caps ELSE [caps EXCEPT ![parts[j].g] = c.cap])
        Choose(cs) == Take(cs[First(cs)])
    IN IF j > Len(parts) THEN [e |-> p, caps |-> caps]
       ELSE IF p \notin good[j] THEN NoMatch
       ELSE Choose(Candidates(parts[j], s, p))

\* RegExp.prototype.exec from lastIndex: the match at the leftmost start position
\* that has one
ExecIn(parts, good, s, lastIndex) ==
    LET starts == {p \in good[1] : p >= lastIndex}
        Found(b, w) == [ok |-> TRUE, b |-> b, e |-> w.e, caps |-> w.caps]
        From(b) == Found(b, Walk(parts, good, 1, s, b, NoCaps))
    IN IF starts = {} THEN NoMatch
       ELSE From(CHOOSE p \in starts : \A u \in starts : p <= u)

\* the successive matches of exec, each from the lastIndex the one before left.
\* (No expression of the source matches the empty string, so lastIndex advances.)
RECURSIVE ExecAllIn(_, _, _, _)
ExecAllIn(parts, good, s, lastIndex) ==
    LET Then(m) == IF ~m.ok THEN <<>> ELSE <<m>> \o ExecAllIn(parts, good, s, m.e)
    IN Then(ExecIn(parts, good, s, lastIndex))

-----------------------------------------------------------------------------
(* The expressions of the parsers *)

\* \d+(?:\.\d{1,2})?
NumAsWritten == Cat(<<Plus(Digits), Opt(Cat(<<Set({"."}), Run(Digits, 1, 2)>>))>>)
Num == [t |-> "num"]
\* \s*-\s*
Dash == Cat(<<Star(WhiteSpace), Set({"-"}), Star(WhiteSpace)>>)

\* the characters of the modelled bulletins; . and [^)] range over them
Punctuation == {".", "-", "(", ")", "/", ",", ":", "ñ"}
Chars == Letters \cup Digits \cup WhiteSpace \cup Punctuation \cup {"_"}
\* .
Dot == Chars \ {"\n"}

\* const pricePatterns of parseNCRFormat, each with the /g flag
NCRPricePatterns == <<
    \* (\d+(?:\.\d{1,2})?)\s*-\s*(\d+(?:\.\d{1,2})?)
    <<Grp(1, Num), Part(Dash), Grp(2, Num)>>,
    \* ... two ranges printed with no separator
    <<Grp(1, Num), Part(Dash), Grp(2, Num), Grp(3, Num), Part(Dash), Grp(4, Num)>>,
    \* ... four ranges printed with no separator
    <<Grp(1, Num), Part(Dash), Grp(2, Num), Grp(3, Num), Part(Dash), Grp(4, Num),
      Grp(5, Num), Part(Dash), Grp(6, Num), Grp(7, Num), Part(Dash), Grp(8, Num)>>
>>

\* (\w+\s+tag)?
TagLabel == Cat(<<Plus(WordChars), Plus(WhiteSpace), Word(Str("tag"))>>)
\* (\w+\([^)]+\))?
SizeLabel == Cat(<<Plus(WordChars), Set({"("}), Plus(Chars \ {")"}), Set({")"})>>)

\* const pricePatterns of parseRXFormat, each with the /g flag
RXPricePatterns == <<
    \* (\w+\s+tag)? followed by six numbers
    <<OptGrp(1, TagLabel), Grp(2, Num), Grp(3, Num), Grp(4, Num),
      Grp(5, Num), Grp(6, Num), Grp(7, Num)>>,
    \* (\w+\([^)]+\))? n/an/an/a followed by three numbers
    <<OptGrp(1, SizeLabel), Part(Word(Str("n/an/an/a"))), Grp(2, Num), Grp(3, Num), Grp(4, Num)>>,
    \* (\w+\([^)]+\))? three numbers followed by n/an/an/a
    <<OptGrp(1, SizeLabel), Grp(2, Num), Grp(3, Num), Grp(4, Num), Part(Word(Str("n/an/an/a")))>>,
    \* six numbers
    <<Grp(1, Num), Grp(2, Num), Grp(3, Num), Grp(4, Num), Grp(5, Num), Grp(6, Num)>>
>>
\* match.length of each pattern
RXMatchLength == <<8, 5, 5, 7>>

\* [a-zA-Z\s]+
CommodityText == Plus(Letters \cup WhiteSpace)

\* const PRICE_PATTERNS of parseGenericFormat, each with the /i flag and none with /g
GenericPricePatterns == <<
    \* ^([a-zA-Z\s]+)\s+(\d+(?:\.\d{1,2})?)
    <<Part(Bol), Grp(1, CommodityText), Part(Plus(WhiteSpace)), Grp(2, Num)>>,
    \* ^([a-zA-Z\s]+)\s+(?:per\s+)?(kg|g|liter|l|piece|pc|pcs)\s+(\d+(?:\.\d{1,2})?)
    <<Part(Bol), Grp(1, CommodityText), Part(Plus(WhiteSpace)),
      Part(Opt(Cat(<<WordI(Str("per")), Plus(WhiteSpace)>>))),
      Grp(2, Alt(<<WordI(Str("kg")), WordI(Str("g")), WordI(Str("liter")), WordI(Str("l")),
                   WordI(Str("piece")), WordI(Str("pc")), WordI(Str("pcs"))>>)),
      Part(Plus(WhiteSpace)), Grp(3, Num)>>,
    \* ^(\d+(?:\.\d{1,2})?)\s+([a-zA-Z\s]+)
    <<Part(Bol), Grp(1, Num), Part(Plus(WhiteSpace)), Grp(2, CommodityText)>>,
    \* ^([a-zA-Z\s]+)\s+(\d+(?:\.\d{1,2})?)\s*-\s*(\d+(?:\.\d{1,2})?)
    <<Part(Bol), Grp(1, CommodityText), Part(Plus(WhiteSpace)), Grp(2, Num),
      Part(Dash), Grp(3, Num)>>,
    \* ^([a-zA-Z\s]+)\s+(\d+(?:\.\d{1,2})?)\s+(\d+(?:\.\d{1,2})?)
    <<Part(Bol), Grp(1, CommodityText), Part(Plus(WhiteSpace)), Grp(2, Num),
      Part(Plus(WhiteSpace)), Grp(3, Num)>>
>>

\* RON\s+\d+ | DIESEL(?:\s+PLUS)? | KEROSENE   (under /i)
FuelTypeNames == <<
    Cat(<<WordI(Str("RON")), Plus(WhiteSpace), Plus(Digits)>>),
    Cat(<<WordI(Str("DIESEL")), Opt(Cat(<<Plus(WhiteSpace), WordI(Str("PLUS"))>>))>>),
    WordI(Str("KEROSENE"))
>>
\* /^(RON\s+\d+|DIESEL(?:\s+PLUS)?|KEROSENE)\s*$/i
FuelTypePattern ==
    <<Part(Bol), Grp(1, Alt(FuelTypeNames)), Part(Star(WhiteSpace)), Part(Eol)>>
\* /^(RON\s+\d+|DIESEL(?:\s+PLUS)?|KEROSENE|PROVINCE|CITY|MUNICIPALITY|PRODUCT)\s*$/i
EndOfFuelPattern ==
    <<Part(Bol),
      Grp(1, Alt(FuelTypeNames \o <<WordI(Str("PROVINCE")), WordI(Str("CITY")),
                                    WordI(Str("MUNICIPALITY")), WordI(Str("PRODUCT"))>>)),
      Part(Star(WhiteSpace)), Part(Eol)>>
\* /\d+\.\d{2}/g
FuelPricePattern == <<Part(Cat(<<Plus(Digits), Set({"."}), Run(Digits, 2, 2)>>))>>

\* \d+(?:g|ml|pcs|L|kg)   (under /i)
DTIUnit == Cat(<<Plus(Digits), Alt(<<WordI(Str("g")), WordI(Str("ml")), WordI(Str("pcs")),
                                     WordI(Str("L")), WordI(Str("kg"))>>)>>)
\* \d+\.\d{2}
DTIPrice == Cat(<<Plus(Digits), Set({"."}), Run(Digits, 2, 2)>>)

\* const LINE_PATTERNS, each with the /i flag and none with /g
LINE_PATTERNS == <<
    \* ^(.*?)\s+(\d+(?:g|ml|pcs|L|kg))\s+(\d+\.\d{2})$
    <<Part(Bol), Grp(1, LazyStar(Dot)), Part(Plus(WhiteSpace)), Grp(2, DTIUnit),
      Part(Plus(WhiteSpace)), Grp(3, DTIPrice), Part(Eol)>>,
    \* ^(.*?)\s+(\d+\.\d{2})\s+(\d+(?:g|ml|pcs|L|kg))$
    <<Part(Bol), Grp(1, LazyStar(Dot)), Part(Plus(WhiteSpace)), Grp(2, DTIPrice),
      Part(Plus(WhiteSpace)), Grp(3, DTIUnit), Part(Eol)>>,
    \* ^(.*?)\s+(\d+(?:g|ml|pcs|L|kg))\s+(\d+(?:\.\d{1,2})?)$
    <<Part(Bol), Grp(1, LazyStar(Dot)), Part(Plus(WhiteSpace)), Grp(2, DTIUnit),
      Part(Plus(WhiteSpace)), Grp(3, Num), Part(Eol)>>,
    \* ^(.*?)\s+(\d+(?:\.\d{1,2})?)$
    <<Part(Bol), Grp(1, LazyStar(Dot)), Part(Plus(WhiteSpace)), Grp(2, Num), Part(Eol)>>
>>

-----------------------------------------------------------------------------
(* Bulletins: the line a text may open with and the lines it may hold, per dialect *)

NCRHeadings == {Str("Balintawak (Cloverleaf) Market")}
NCRLines == {Str(" Quiapo market 45.00-48.00"),
             Str("45.00-48.00"), Str("45.00-48.007.00-8.00"),
             Str("37.00-45.00140.00-150.00180.00-200.007.00-7.80"),
             Str("0.00-8.0048.00-45.00")}
RXHeadings == {Str("LOCAL COMMERCIAL RICE")}
RXLines == {Str("Well milled"),
            Str("med(3-4pcs/kg)n/an/an/a200.00200.00200.00"),
            Str("med(5-6pcs/kg)200.00210.00200.00n/an/an/a"),
            Str("48.0050.0050.0050.0050.0050.00")}
GenericLines == {Str("Rice 45.50"), Str("Milk liter 50.00"), Str("Rice 45.50-55.75"),
                 Str("Rice 45.50 55.75"), Str("Price Monitoring 2025"), Str("Gold 10000"),
                 Str("Salt 0"), Str("A 45")}
DOEHeadings == {Str("RON 95")}
DOELines == {Str("diesel plus"), Str("56.49"), Str("58.4961.00"),
             Str("250.00 0.00"), Str("PROVINCE"), Str("Page 1.00")}
DTILines == {Str("Sugar 1kg 45.00"), Str("Coffee  mix 12.50 25g"), Str("Sardines 155g 18"),
             Str("Bread 35.5"), Str("Sugar 1kg 0.00"), Str("SRP Bulletin 2025"),
             Str("A 1kg 45.00")}

-----------------------------------------------------------------------------
(* Matching the expressions of the parsers *)

\* String.prototype.match with an expression without /g: the first match
Exec(parts, s) == ExecIn(parts, GoodFrom(parts, 1, s), s, 1)

\* while ((match = pattern.exec(line)) !== null) with a /g expression, and
\* String.prototype.match with /g: all the matches, left to right
ExecAll(parts, s) == ExecAllIn(parts, GoodFrom(parts, 1, s), s, 1)

\* match[n]: the text of capture group n (the empty sequence stands for
\* undefined and for the empty string, both falsy).
Group(m, s, n) ==
    IF m.caps[n] = <<0, 0>> THEN <<>> ELSE SubSeq(s, m.caps[n][1], m.caps[n][2] - 1)
\* match[0]
Matched(m, s) == SubSeq(s, m.b, m.e - 1)

\* null (filename: null); no string of the model is empty where null may occur
Null == <<>>

-----------------------------------------------------------------------------
(* DA parser: parseNCRFormat *)

\* const MARKET_NAMES
MARKET_NAMES == <<
    Str("Agora Public Market"),
    Str("Balintawak"),
    Str("Bicutan Market"),
    Str("Cartimar Market"),
    Str("Commonwealth Market"),
    Str("Dagonoy Market"),
    Str("Guadalupe Public Market"),
    Str("Kamuning Public Market"),
    Str("La Huerta Market"),
    Str("New Las Piñas City Public Market"),
    Str("Malabon Central Market"),
    Str("Mandaluyong Public Market"),
    Str("Marikina Public Market"),
    Str("Maypajo Public Market"),
    Str("Mega Q-mart"),
    Str("Navotas Fish Port"),
    Str("Pasig City Market"),
    Str("Quiapo Market"),
    Str("San Andres Market"),
    Str("Sta. Ana Market"),
    Str("Taguig Market"),
    Str("Valenzuela Market"),
    Str("Vitas Market")
>>

\* MARKET_NAMES.some(market => line.toLowerCase().includes(market.toLowerCase()))
LowerMarketNames == [n \in 1..Len(MARKET_NAMES) |-> toLowerCase(MARKET_NAMES[n])]
isMarketName(line) ==
    LET Some(lower, markets) == \E n \in 1..Len(markets) : includes(lower, markets[n])
    IN Some(toLowerCase(line), LowerMarketNames)

\* the condition under which parseNCRFormat keeps a candidate range
NCRRangeValid_noOrder(minPrice, maxPrice) == minPrice > 0 /\ maxPrice > 0
NCRRangeValid(minPrice, maxPrice) == minPrice > 0 /\ maxPrice > 0 /\ maxPrice >= minPrice

\* (minPrice + maxPrice) / 2, as the fraction <<numerator, denominator>>
Midpoint(minPrice, maxPrice) == <<minPrice + maxPrice, 2>>

\* const rangeEntry = {...} of parseNCRFormat
NCRRangeEntry(minPrice, maxPrice, market, reg, dt) ==
    [ commodity    |-> IF market # <<>> THEN Str("Rice at ") \o market ELSE Str("Rice"),
      unit         |-> Str("per kg"),
      minPrice     |-> minPrice,
      maxPrice     |-> maxPrice,
      averagePrice |-> Midpoint(minPrice, maxPrice),
      source       |-> Str("DA"),
      region       |-> reg,
      date         |-> dt,
      category     |-> Str("rice"),
      hasRange     |-> TRUE,
      filename     |-> Null,
      market       |-> market ]

\* the body of  while ((match = pattern.exec(line)) !== null)  over the matches ms
\* of one pattern: match[1] and match[2] are the bounds, whatever the pattern
RECURSIVE NCRRangesOfMatches(_, _, _, _, _)
NCRRangesOfMatches(ms, line, market, reg, dt) ==
    IF ms = <<>> THEN <<>>
    ELSE LET g1 == Group(Head(ms), line, 1)
             g2 == Group(Head(ms), line, 2)
             keep == /\ ~isNaNparseFloat(g1) /\ ~isNaNparseFloat(g2)
                     /\ NCRRangeValid(parseFloat(g1), parseFloat(g2))
         IN (IF keep THEN <<NCRRangeEntry(parseFloat(g1), parseFloat(g2), market, reg, dt)>>
             ELSE <<>>)
            \o NCRRangesOfMatches(Tail(ms), line, market, reg, dt)

\* for (const pattern of pricePatterns) { while (... exec ...) {...} }
NCRRangesOfLine(line, market, reg, dt) ==
    NCRRangesOfMatches(ExecAll(NCRPricePatterns[1], line), line, market, reg, dt)
    \o NCRRangesOfMatches(ExecAll(NCRPricePatterns[2], line), line, market, reg, dt)
    \o NCRRangesOfMatches(ExecAll(NCRPricePatterns[3], line), line, market, reg, dt)

\* One iteration of the line loop of parseNCRFormat on the raw line: the new
\* currentMarket and the range entries pushed.
NCRLineStep_noContinue(raw, market, reg, dt) ==
    LET line == trim(raw)
        set == IF isMarketName(line) THEN line ELSE market
    IN IF Len(line) < 3 THEN [currentMarket |-> market, pushed |-> <<>>]
       ELSE [currentMarket |-> set, pushed |-> NCRRangesOfLine(line, set, reg, dt)]
NCRLineStep(raw, market, reg, dt) ==
    LET line == trim(raw)
    IN IF Len(line) < 3 THEN [currentMarket |-> market, pushed |-> <<>>]
       ELSE IF isMarketName(line) THEN [currentMarket |-> line, pushed |-> <<>>]
       ELSE [currentMarket |-> market, pushed |-> NCRRangesOfLine(line, market, reg, dt)]

\* const COMMODITY_CATEGORIES, in the order of Object.entries
COMMODITY_CATEGORIES == <<
    [ category |-> Str("rice"),   \* rice
      variations |-> <<
          Str("rice"),
          Str("bigas"),
          Str("palay"),
          Str("white rice"),
          Str("brown rice"),
          Str("special"),
          Str("premium"),
          Str("well milled"),
          Str("regular milled") >> ],
    [ category |-> Str("vegetables"),   \* vegetables
      variations |-> <<
          Str("vegetables"),
          Str("gulay"),
          Str("tomato"),
          Str("onion"),
          Str("garlic"),
          Str("potato"),
          Str("cabbage"),
          Str("carrot") >> ],
    [ category |-> Str("fruits"),   \* fruits
      variations |-> <<
          Str("fruits"),
          Str("prutas"),
          Str("banana"),
          Str("apple"),
          Str("orange"),
          Str("mango"),
          Str("papaya") >> ],
    [ category |-> Str("meat"),   \* meat
      variations |-> <<
          Str("meat"),
          Str("karne"),
          Str("pork"),
          Str("beef"),
          Str("chicken"),
          Str("fish"),
          Str("bangus"),
          Str("tilapia"),
          Str("galunggong") >> ],
    [ category |-> Str("dairy"),   \* dairy
      variations |-> <<
          Str("dairy"),
          Str("milk"),
          Str("cheese"),
          Str("butter"),
          Str("eggs") >> ],
    [ category |-> Str("grains"),   \* grains
      variations |-> <<
          Str("grains"),
          Str("corn"),
          Str("wheat"),
          Str("flour") >> ],
    [ category |-> Str("sugar"),   \* sugar
      variations |-> <<
          Str("sugar"),
          Str("asukal") >> ],
    [ category |-> Str("oil"),   \* oil
      variations |-> <<
          Str("oil"),
          Str("cooking oil"),
          Str("vegetable oil") >> ]
>>


\* normalizeCommodityType
RECURSIVE CategoryFrom(_, _)
CategoryFrom(n, lowerCommodity) ==
    IF n > Len(COMMODITY_CATEGORIES) THEN Str("other")
    ELSE IF \E v \in 1..Len(COMMODITY_CATEGORIES[n].variations) :
                includes(lowerCommodity, COMMODITY_CATEGORIES[n].variations[v])
         THEN COMMODITY_CATEGORIES[n].category
         ELSE CategoryFrom(n + 1, lowerCommodity)
normalizeCommodityType(commodity) == CategoryFrom(1, toLowerCase(commodity))

-----------------------------------------------------------------------------
(* DA parser: parseRXFormat *)

\* match.slice(1).filter(p => p && !isNaN(parseFloat(p))).map(p => parseFloat(p))
RECURSIVE RXPrices(_, _, _, _)
RXPrices(m, line, n, length) ==
    IF n >= length THEN <<>>
    ELSE (IF Group(m, line, n) # <<>> /\ ~isNaNparseFloat(Group(m, line, n))
          THEN <<parseFloat(Group(m, line, n))>> ELSE <<>>)
         \o RXPrices(m, line, n + 1, length)

\* Math.min(...prices), Math.max(...prices), prices.reduce((a, b) => a + b, 0)
MathMin(prices) == CHOOSE x \in {prices[n] : n \in 1..Len(prices)} :
                       \A n \in 1..Len(prices) : x <= prices[n]
MathMax(prices) == CHOOSE x \in {prices[n] : n \in 1..Len(prices)} :
                       \A n \in 1..Len(prices) : x >= prices[n]
RECURSIVE Sum(_)
Sum(prices) == IF prices = <<>> THEN 0 ELSE Head(prices) + Sum(Tail(prices))

\* prices.reduce((a, b) => a + b, 0) / prices.length, as <<numerator, denominator>>
RXAverage_sum(prices) == <<Sum(prices), 1>>
RXAverage(prices) == <<Sum(prices), Len(prices)>>

\* the condition under which parseRXFormat keeps a candidate range
RXRangeValid(minPrice, maxPrice) == minPrice > 0 /\ maxPrice > 0 /\ maxPrice >= minPrice

\* const rangeEntry = {...} of parseRXFormat
RXRangeEntry(prices, commodity, category, reg, dt) ==
    [ commodity       |-> IF commodity # <<>> THEN commodity ELSE Str("Rice"),
      unit            |-> Str("per kg"),
      minPrice        |-> MathMin(prices),
      maxPrice        |-> MathMax(prices),
      averagePrice    |-> RXAverage(prices),
      source          |-> Str("DA"),
      region          |-> reg,
      date            |-> dt,
      category        |-> normalizeCommodityType(IF commodity # <<>> THEN commodity ELSE Str("Rice")),
      hasRange        |-> TRUE,
      filename        |-> Null,
      category_header |-> category ]

\* the body of the while loop over the matches ms of the pattern with match.length = length
RECURSIVE RXRangesOfMatches(_, _, _, _, _, _, _)
RXRangesOfMatches(ms, length, line, commodity, category, reg, dt) ==
    IF ms = <<>> THEN <<>>
    ELSE LET prices == RXPrices(Head(ms), line, 1, length)
             keep == /\ length >= 4
                     /\ Len(prices) >= 2
                     /\ RXRangeValid(MathMin(prices), MathMax(prices))
         IN (IF keep THEN <<RXRangeEntry(prices, commodity, category, reg, dt)>> ELSE <<>>)
            \o RXRangesOfMatches(Tail(ms), length, line, commodity, category, reg, dt)

\* for (const pattern of pricePatterns) { while (... exec ...) {...} }
RECURSIVE RXRangesOfLine(_, _, _, _, _, _)
RXRangesOfLine(n, line, commodity, category, reg, dt) ==
    IF n > Len(RXPricePatterns) THEN <<>>
    ELSE RXRangesOfMatches(ExecAll(RXPricePatterns[n], line), RXMatchLength[n],
                           line, commodity, category, reg, dt)
         \o RXRangesOfLine(n + 1, line, commodity, category, reg, dt)

isRXCategoryHeader(line) ==
    \/ includes(line, Str("IMPORTED COMMERCIAL RICE"))
    \/ includes(line, Str("LOCAL COMMERCIAL RICE"))
    \/ includes(line, Str("FISH"))
    \/ includes(line, Str("MEAT"))
    \/ includes(line, Str("VEGETABLES"))
    \/ includes(line, Str("FRUITS"))

isRXCommodityType(line) ==
    \/ includes(line, Str("Special")) \/ includes(line, Str("Premium"))
    \/ includes(line, Str("Well milled")) \/ includes(line, Str("Regular milled"))
    \/ includes(line, Str("Bangus")) \/ includes(line, Str("Tilapia"))
    \/ includes(line, Str("Galunggong"))

\* One iteration of the line loop of parseRXFormat on the raw line.
RXLineStep(raw, category, commodity, reg, dt) ==
    LET line == trim(raw)
        same == [currentCategory |-> category, currentCommodity |-> commodity, pushed |-> <<>>]
    IN IF Len(line) < 3 THEN same
       ELSE IF isRXCategoryHeader(line) THEN [same EXCEPT !.currentCategory = line]
       ELSE IF isRXCommodityType(line) THEN [same EXCEPT !.currentCommodity = line]
       ELSE [same EXCEPT !.pushed = RXRangesOfLine(1, line, commodity, category, reg, dt)]

-----------------------------------------------------------------------------
(* DA parser: parseGenericFormat *)

\* for (let j = 0; ...) { match = line.match(PRICE_PATTERNS[j]); if (match) {...; break;} }:
\* the match and the index (from 1) of the first pattern that matches, 0 when none does
RECURSIVE FirstMatch(_, _, _)
FirstMatch(patterns, n, line) ==
    LET Try(m) == IF m.ok THEN [patternIndex |-> n, match |-> m]
                  ELSE FirstMatch(patterns, n + 1, line)
    IN IF n > Len(patterns) THEN [patternIndex |-> 0, match |-> NoMatch]
       ELSE Try(Exec(patterns[n], line))

\* the switch (patternIndex): what the groups of the matching pattern are bound to
GenericFields(patternIndex, m, line) ==
    LET none == [commodity |-> <<>>, unit |-> Str("per kg"), price |-> <<>>,
                 minPrice |-> <<>>, maxPrice |-> <<>>]
    IN CASE patternIndex = 1 ->
              [none EXCEPT !.commodity = Group(m, line, 1), !.price = Group(m, line, 2)]
         [] patternIndex = 2 ->
              [none EXCEPT !.commodity = Group(m, line, 1), !.unit = Group(m, line, 2),
                           !.price = Group(m, line, 3)]
         [] patternIndex = 3 ->
              [none EXCEPT !.price = Group(m, line, 1), !.commodity = Group(m, line, 2)]
         [] patternIndex = 4 ->
              [none EXCEPT !.commodity = Group(m, line, 1), !.minPrice = Group(m, line, 2),
                           !.maxPrice = Group(m, line, 3)]
         [] patternIndex = 5 ->
              [none EXCEPT !.commodity = Group(m, line, 1), !.minPrice = Group(m, line, 2),
                           !.maxPrice = Group(m, line, 3)]

\* s.replace(/\s+/g, ' ')
RECURSIVE collapseWhiteSpace(_)
collapseWhiteSpace(s) ==
    IF s = <<>> THEN <<>>
    ELSE IF Head(s) \in WhiteSpace
         THEN <<" ">> \o collapseWhiteSpace(SubSeq(s, 1 + RunLength(WhiteSpace, s, 1), Len(s)))
         ELSE <<Head(s)>> \o collapseWhiteSpace(Tail(s))

\* "Skip if commodity is too short or looks like a header"
GenericLooksLikeHeader_lengthOnly(commodity) == Len(commodity) < 2
GenericLooksLikeHeader(commodity) ==
    \/ Len(commodity) < 2
    \/ includes(toLowerCase(commodity), Str("page"))
    \/ includes(toLowerCase(commodity), Str("monitoring"))
    \/ includes(toLowerCase(commodity), Str("price"))
    \/ includes(toLowerCase(commodity), Str("date"))
    \/ includes(toLowerCase(commodity), Str("region"))
    \/ includes(toLowerCase(commodity), Str("province"))

\* the conditions under which parseGenericFormat keeps a range and a single price
GenericRangeValid(min, max) == min > 0 /\ max > 0 /\ max >= min
GenericPriceValid(singlePrice) == singlePrice > 0 /\ singlePrice < 10000 * 100

\* const rangeEntry = {...} of parseGenericFormat
GenericRangeEntry(commodity, unit, min, max, reg, dt) ==
    [ commodity    |-> commodity,
      unit         |-> unit,
      minPrice     |-> min,
      maxPrice     |-> max,
      averagePrice |-> Midpoint(min, max),
      source       |-> Str("DA"),
      region       |-> reg,
      date         |-> dt,
      category     |-> normalizeCommodityType(commodity),
      hasRange     |-> TRUE,
      filename     |-> Null ]

\* const result = {...} of parseGenericFormat
GenericResult(commodity, unit, singlePrice, reg, dt) ==
    [ commodity |-> commodity,
      unit      |-> unit,
      price     |-> singlePrice,
      source    |-> Str("DA"),
      region    |-> reg,
      date      |-> dt,
      category  |-> normalizeCommodityType(commodity),
      hasRange  |-> FALSE,
      filename  |-> Null ]

\* One iteration of the line loop of parseGenericFormat on the raw line: the
\* single-price results and the range entries pushed.
GenericLineStep(raw, reg, dt) ==
    LET nothing == [results |-> <<>>, priceRanges |-> <<>>]
        Push(commodity, f) ==
            IF GenericLooksLikeHeader(commodity) THEN nothing
            ELSE [ priceRanges |->
                     IF /\ f.minPrice # <<>> /\ f.maxPrice # <<>>
                        /\ ~isNaNparseFloat(f.minPrice) /\ ~isNaNparseFloat(f.maxPrice)
                        /\ GenericRangeValid(parseFloat(f.minPrice), parseFloat(f.maxPrice))
                     THEN <<GenericRangeEntry(commodity, f.unit, parseFloat(f.minPrice),
                                              parseFloat(f.maxPrice), reg, dt)>>
                     ELSE <<>>,
                   results |->
                     IF /\ f.price # <<>>
                        /\ ~isNaNparseFloat(f.price)
                        /\ GenericPriceValid(parseFloat(f.price))
                     THEN <<GenericResult(commodity, f.unit, parseFloat(f.price), reg, dt)>>
                     ELSE <<>> ]
        Bound(f) == Push(collapseWhiteSpace(trim(f.commodity)), f)
        Tried(line, found) ==
            IF found.patternIndex = 0 THEN nothing
            ELSE Bound(GenericFields(found.patternIndex, found.match, line))
        Body(line) ==
            IF Len(line) < 3 THEN nothing
            ELSE Tried(line, FirstMatch(GenericPricePatterns, 1, line))
    IN Body(trim(raw))

-----------------------------------------------------------------------------
(* DOE parser: extractPricesFromText *)

\* "Validate price": the prices the DOE parser keeps
DOEPriceValid_noCeiling(price) == price > 0
DOEPriceValid(price) == ~(price <= 0 \/ price > 200 * 100)

\* "Skip if it looks like a page number or other non-price data"
DOELooksLikeNonPrice(line) ==
    \/ includes(toLowerCase(line), Str("page"))
    \/ includes(toLowerCase(line), Str("none"))
    \/ includes(toLowerCase(line), Str("monitoring"))

\* "Determine fuel category"
DOEFuelCategory(fuelType) ==
    IF includes(fuelType, Str("DIESEL")) THEN Str("diesel")
    ELSE IF includes(fuelType, Str("KEROSENE")) THEN Str("kerosene")
    ELSE Str("gasoline")

\* const result = {...} of the DOE extractPricesFromText
DOEResult(fuelType, price, reg, dt) ==
    [ commodity |-> fuelType,
      unit      |-> Str("per liter"),
      price     |-> price,
      source    |-> Str("DOE"),
      region    |-> reg,
      date      |-> dt,
      fuelType  |-> DOEFuelCategory(fuelType),
      brand     |-> Null,
      filename  |-> Null ]

\* for (const priceStr of priceMatches) {...}
RECURSIVE DOEResultsOfMatches(_, _, _, _, _)
DOEResultsOfMatches(ms, line, fuelType, reg, dt) ==
    IF ms = <<>> THEN <<>>
    ELSE LET priceStr == Matched(Head(ms), line)
             keep == /\ ~isNaNparseFloat(priceStr)
                     /\ DOEPriceValid(parseFloat(priceStr))
                     /\ ~DOELooksLikeNonPrice(line)
         IN (IF keep THEN <<DOEResult(fuelType, parseFloat(priceStr), reg, dt)>> ELSE <<>>)
            \o DOEResultsOfMatches(Tail(ms), line, fuelType, reg, dt)

\* the fuel type a header line sets
DOEHeaderFuelType_asWritten(line) == Group(Exec(FuelTypePattern, line), line, 1)
DOEHeaderFuelType(line) == toUpperCase(Group(Exec(FuelTypePattern, line), line, 1))

\* "Check if this line indicates the end of current fuel type data"
DOEEndsFuelType(line) == Exec(EndOfFuelPattern, line).ok

\* One iteration of the line loop of the DOE extractPricesFromText on the raw
\* line: the new currentFuelType (Null for null) and the results pushed.
DOELineStep(raw, fuelType, reg, dt) ==
    LET line == trim(raw)
    IN IF Len(line) < 2 THEN [currentFuelType |-> fuelType, pushed |-> <<>>]
       ELSE IF Exec(FuelTypePattern, line).ok
            THEN [currentFuelType |-> DOEHeaderFuelType(line), pushed |-> <<>>]
       ELSE IF fuelType # Null
            THEN [ currentFuelType |-> IF DOEEndsFuelType(line) THEN Null ELSE fuelType,
                   pushed |-> DOEResultsOfMatches(ExecAll(FuelPricePattern, line), line,
                                                  fuelType, reg, dt) ]
       ELSE [currentFuelType |-> fuelType, pushed |-> <<>>]

-----------------------------------------------------------------------------
(* DTI parser: parseDTIPDF *)

\* the if / else if chain on patternIndex
DTIFields(patternIndex, m, line) ==
    CASE patternIndex = 1 ->
           [commodity |-> Group(m, line, 1), unit |-> Group(m, line, 2), price |-> Group(m, line, 3)]
      [] patternIndex = 2 ->
           [commodity |-> Group(m, line, 1), price |-> Group(m, line, 2), unit |-> Group(m, line, 3)]
      [] patternIndex = 3 ->
           [commodity |-> Group(m, line, 1), unit |-> Group(m, line, 2), price |-> Group(m, line, 3)]
      [] patternIndex = 4 ->
           [commodity |-> Group(m, line, 1), price |-> Group(m, line, 2), unit |-> Str("unit")]

\* "Skip if commodity is too short or looks like a header"
DTILooksLikeHeader(commodity) ==
    \/ Len(commodity) < 2
    \/ includes(toLowerCase(commodity), Str("page"))
    \/ includes(toLowerCase(commodity), Str("srp"))
    \/ includes(toLowerCase(commodity), Str("bulletin"))

\* results.push({...}) of parseDTIPDF
DTIResult(commodity, unit, price) ==
    [ commodity |-> commodity,
      unit      |-> IF unit # <<>> THEN trim(unit) ELSE Str("unit"),
      price     |-> parseFloat(price),
      source    |-> Str("DTI"),
      region    |-> Str("National"),
      date      |-> Str("2025-02-01") ]

\* One iteration of the line loop of parseDTIPDF on the raw line: the results pushed.
DTILineStep(raw) ==
    LET Push(commodity, f) ==
            IF DTILooksLikeHeader(commodity) THEN <<>>
            ELSE <<DTIResult(commodity, f.unit, f.price)>>
        Bound(f) == Push(collapseWhiteSpace(trim(f.commodity)), f)
        Tried(trimmed, found) ==
            IF found.patternIndex = 0 THEN <<>>
            ELSE Bound(DTIFields(found.patternIndex, found.match, trimmed))
        Body(trimmed) ==
            IF Len(trimmed) < 5 THEN <<>>
            ELSE Tried(trimmed, FirstMatch(LINE_PATTERNS, 1, trimmed))
    IN Body(trim(raw))

-----------------------------------------------------------------------------
(* The parsers as functions of the whole text *)

\* let currentMarket = '' / let currentCategory = '' / let currentCommodity = '' /
\* let currentFuelType = null: the value a call starts from, whatever an earlier
\* call left behind
InitialCurrentMarket_leftover(leftover) == leftover
InitialCurrentMarket(leftover) == <<>>
InitialCurrentCategory(leftover) == <<>>
InitialCurrentCommodity(leftover) == <<>>
InitialCurrentFuelType(leftover) == Null

\* parseNCRFormat(lines, region, date): the line loop from line n on
RECURSIVE NCRLoop(_, _, _, _, _)
NCRLoop(ls, n, market, reg, dt) ==
    IF n > Len(ls) THEN <<>>
    ELSE LET step == NCRLineStep(ls[n], market, reg, dt)
         IN step.pushed \o NCRLoop(ls, n + 1, step.currentMarket, reg, dt)
parseNCRFormat(ls, reg, dt) ==
    [results |-> <<>>, priceRanges |-> NCRLoop(ls, 1, InitialCurrentMarket(<<>>), reg, dt)]

\* parseRXFormat(lines, region, date)
RECURSIVE RXLoop(_, _, _, _, _, _)
RXLoop(ls, n, category, commodity, reg, dt) ==
    IF n > Len(ls) THEN <<>>
    ELSE LET step == RXLineStep(ls[n], category, commodity, reg, dt)
         IN step.pushed \o RXLoop(ls, n + 1, step.currentCategory, step.currentCommodity, reg, dt)
parseRXFormat(ls, reg, dt) ==
    [results |-> <<>>,
     priceRanges |-> RXLoop(ls, 1, InitialCurrentCategory(<<>>), InitialCurrentCommodity(<<>>),
                            reg, dt)]

\* parseGenericFormat(lines, region, date)
RECURSIVE GenericLoop(_, _, _, _)
GenericLoop(ls, n, reg, dt) ==
    IF n > Len(ls) THEN [results |-> <<>>, priceRanges |-> <<>>]
    ELSE LET step == GenericLineStep(ls[n], reg, dt)
             later == GenericLoop(ls, n + 1, reg, dt)
         IN [results |-> step.results \o later.results,
             priceRanges |-> step.priceRanges \o later.priceRanges]
parseGenericFormat(ls, reg, dt) == GenericLoop(ls, 1, reg, dt)

\* which parser the DA extractPricesFromText hands the lines to
DAFormat(reg) ==
    IF reg = Str("NCR") THEN "NCR" ELSE IF reg = Str("RX") THEN "RX" ELSE "Generic"

\* the DA extractPricesFromText(text, region, date), text given as its lines
DAextractPricesFromText(ls, reg, dt) ==
    CASE DAFormat(reg) = "NCR" -> parseNCRFormat(ls, reg, dt)
      [] DAFormat(reg) = "RX" -> parseRXFormat(ls, reg, dt)
      [] OTHER -> parseGenericFormat(ls, reg, dt)

\* the DOE extractPricesFromText(text, region, date), text given as its lines
RECURSIVE DOELoop(_, _, _, _, _)
DOELoop(ls, n, fuelType, reg, dt) ==
    IF n > Len(ls) THEN <<>>
    ELSE LET step == DOELineStep(ls[n], fuelType, reg, dt)
         IN step.pushed \o DOELoop(ls, n + 1, step.currentFuelType, reg, dt)
DOEextractPricesFromText(ls, reg, dt) == DOELoop(ls, 1, InitialCurrentFuelType(Null), reg, dt)

\* the line loop of parseDTIPDF over the lines of the decoded text
RECURSIVE DTILoop(_, _)
DTILoop(ls, n) == IF n > Len(ls) THEN <<>> ELSE DTILineStep(ls[n]) \o DTILoop(ls, n + 1)
parseDTILines(ls) == DTILoop(ls, 1)

-----------------------------------------------------------------------------
(* The date of a bulletin, from the name of its file *)

\* const datePatterns of the DA extractDateFromFilename
DADatePatterns == <<
    \* (\d{2})(\d{2})(\d{4})
    <<Grp(1, Run(Digits, 2, 2)), Grp(2, Run(Digits, 2, 2)), Grp(3, Run(Digits, 4, 4))>>,
    \* (\d{4})-(\d{2})-(\d{2})
    <<Grp(1, Run(Digits, 4, 4)), Part(Set({"-"})), Grp(2, Run(Digits, 2, 2)),
      Part(Set({"-"})), Grp(3, Run(Digits, 2, 2))>>,
    \* (\d{2})-(\d{2})-(\d{4})
    <<Grp(1, Run(Digits, 2, 2)), Part(Set({"-"})), Grp(2, Run(Digits, 2, 2)),
      Part(Set({"-"})), Grp(3, Run(Digits, 4, 4))>>,
    \* (\d{1,2})\/(\d{1,2})\/(\d{4})
    <<Grp(1, Run(Digits, 1, 2)), Part(Set({"/"})), Grp(2, Run(Digits, 1, 2)),
      Part(Set({"/"})), Grp(3, Run(Digits, 4, 4))>>,
    \* (\d{4})(\d{2})(\d{2})
    <<Grp(1, Run(Digits, 4, 4)), Grp(2, Run(Digits, 2, 2)), Grp(3, Run(Digits, 2, 2))>>,
    \* (\w+)\s+(\d{1,2}),?\s+(\d{4})
    <<Grp(1, Plus(WordChars)), Part(Plus(WhiteSpace)), Grp(2, Run(Digits, 1, 2)),
      Part(Cat(<<Opt(Set({","})), Plus(WhiteSpace)>>)), Grp(3, Run(Digits, 4, 4))>>,
    \* (\d{1,2})\/(\d{1,2})\/(\d{2})
    <<Grp(1, Run(Digits, 1, 2)), Part(Set({"/"})), Grp(2, Run(Digits, 1, 2)),
      Part(Set({"/"})), Grp(3, Run(Digits, 2, 2))>>,
    \* April\s+(\d{1,2}),?\s+(\d{4})
    <<Part(Cat(<<Word(Str("April")), Plus(WhiteSpace)>>)), Grp(1, Run(Digits, 1, 2)),
      Part(Cat(<<Opt(Set({","})), Plus(WhiteSpace)>>)), Grp(2, Run(Digits, 4, 4))>>,
    \* June\s+(\d{1,2}),?\s+(\d{4})
    <<Part(Cat(<<Word(Str("June")), Plus(WhiteSpace)>>)), Grp(1, Run(Digits, 1, 2)),
      Part(Cat(<<Opt(Set({","})), Plus(WhiteSpace)>>)), Grp(2, Run(Digits, 4, 4))>>
>>

\* const datePatterns of the DOE extractDateFromFilename: the first five of the DA ones
DOEDatePatterns == SubSeq(DADatePatterns, 1, 5)

\* `${match[n]}`: the text of group n, "undefined" for a group that did not take part
GroupText(m, s, n) == IF m.caps[n] = <<0, 0>> THEN Str("undefined") ELSE Group(m, s, n)

\* s.padStart(2, '0')
padStart2(s) == IF Len(s) < 2 THEN [n \in 1..(2 - Len(s)) |-> "0"] \o s ELSE s

\* the DA extractDateFromFilename(filename): the loop over datePatterns from
\* pattern n on; a pattern that matches without any branch returning is passed over
RECURSIVE DADateFrom(_, _)
DADateFrom(n, filename) ==
    LET Decide(m) ==
            IF ~m.ok THEN DADateFrom(n + 1, filename)
            ELSE IF Len(Group(m, filename, 1)) = 4
                 THEN GroupText(m, filename, 1) \o <<"-">> \o GroupText(m, filename, 2)
                      \o <<"-">> \o GroupText(m, filename, 3)
            ELSE IF Len(Group(m, filename, 1)) = 2
                 THEN GroupText(m, filename, 3) \o <<"-">> \o padStart2(Group(m, filename, 1))
                      \o <<"-">> \o padStart2(GroupText(m, filename, 2))
            ELSE IF Group(m, filename, 1) = Str("April")
                 THEN GroupText(m, filename, 2) \o Str("-04-07")
            ELSE IF Group(m, filename, 1) = Str("June")
                 THEN GroupText(m, filename, 2) \o Str("-06-26")
            ELSE DADateFrom(n + 1, filename)
    IN IF n > Len(DADatePatterns) THEN Str("2025-06-26")
       ELSE Decide(Exec(DADatePatterns[n], filename))
DAextractDateFromFilename(filename) == DADateFrom(1, filename)

\* the DOE extractDateFromFilename(filename): the first pattern that matches decides
DOEextractDateFromFilename(filename) ==
    LET Decide(m) ==
            IF Len(Group(m, filename, 1)) = 4
            THEN Group(m, filename, 1) \o <<"-">> \o Group(m, filename, 2)
                 \o <<"-">> \o Group(m, filename, 3)
            ELSE Group(m, filename, 3) \o <<"-">> \o padStart2(Group(m, filename, 1))
                 \o <<"-">> \o padStart2(Group(m, filename, 2))
        Found(found) == IF found.patternIndex = 0 THEN Str("2025-06-17")
                        ELSE Decide(found.match)
    IN Found(FirstMatch(DOEDatePatterns, 1, filename))

-----------------------------------------------------------------------------
(* One bulletin file *)

(***************************************************************************)
(* A discovered file is the entry getAllPDFs makes for it (filename,       *)
(* region) together with what the disk holds under its path: failure says  *)
(* whether fs.readFileSync throws ("read"), pdf() rejects ("decode") or    *)
(* neither ("none"), and lines are the lines of the decoded text.          *)
(***************************************************************************)

\* parseDAPDF(pdfPath, region, debug): what it throws or returns
parseDAPDF(file, dbg) ==
    IF file.failure = "read" THEN [threw |-> TRUE, message |-> "Could not read PDF file"]
    ELSE IF file.failure = "decode" THEN [threw |-> TRUE, message |-> "Could not parse PDF"]
    ELSE [threw |-> FALSE,
          value |-> DAextractPricesFromText(file.lines, file.region,
                                            DAextractDateFromFilename(file.filename))]

\* parseDOEPDF(pdfPath, region, debug): what it throws or returns
parseDOEPDF(file, dbg) ==
    IF file.failure = "read" THEN [threw |-> TRUE, message |-> "Could not read PDF file"]
    ELSE IF file.failure = "decode" THEN [threw |-> TRUE, message |-> "Could not parse PDF"]
    ELSE [threw |-> FALSE,
          value |-> DOEextractPricesFromText(file.lines, file.region,
                                             DOEextractDateFromFilename(file.filename))]

\* results.forEach(result => { result.filename = pdf.filename; })
withFilename_untagged(records, filename) == records
withFilename(records, filename) ==
    [n \in 1..Len(records) |-> [records[n] EXCEPT !.filename = filename]]

-----------------------------------------------------------------------------
(* The texts and the arguments of the calls *)

MaxLines == 2

\* the texts of at most MaxLines lines of the pool, after one of the headings or none
Texts(headings, pool) ==
    {opening \o ls : opening \in {<<>>} \cup {<<h>> : h \in headings},
                     ls \in UNION {[1..n -> pool] : n \in 0..MaxLines}}

DARegions == {Str("NCR"), Str("RX"), Str("Region III")}
DATexts(reg) ==
    CASE DAFormat(reg) = "NCR" -> Texts(NCRHeadings, NCRLines)
      [] DAFormat(reg) = "RX" -> Texts(RXHeadings, RXLines)
      [] OTHER -> Texts({}, GenericLines)
Dates == {Str("2025-06-26")}

MaxFiles == 3

\* the files the DA directories may hold
DAFiles == {
    [filename |-> Str("2025-06-20.pdf"), region |-> Str("NCR"), failure |-> "none",
     lines |-> <<Str("Balintawak (Cloverleaf) Market"), Str("45.00-48.00")>>],
    [filename |-> Str("06202025.pdf"), region |-> Str("NCR"), failure |-> "read",
     lines |-> <<>>],
    [filename |-> Str("rx June 26, 2025.pdf"), region |-> Str("RX"), failure |-> "none",
     lines |-> <<Str("48.0050.0050.0050.0050.0050.00")>>],
    [filename |-> Str("Price-Monitoring-June-26-2025.pdf"), region |-> Str("Region III"),
     failure |-> "none", lines |-> <<Str("Rice 45.50"), Str("Milk liter 50.00")>>],
    [filename |-> Str("bulletin.pdf"), region |-> Str("Region III"), failure |-> "decode",
     lines |-> <<>>] }

\* the files the DOE directories may hold
DOEFiles == {
    [filename |-> Str("luzon_06172025.pdf"), region |-> Str("Luzon"), failure |-> "none",
     lines |-> <<Str("RON 95"), Str("56.49")>>],
    [filename |-> Str("luzon.pdf"), region |-> Str("Luzon"), failure |-> "decode",
     lines |-> <<>>],
    [filename |-> Str("2025-06-24.pdf"), region |-> Str("Visayas"), failure |-> "none",
     lines |-> <<Str("diesel plus"), Str("58.4961.00")>>],
    [filename |-> Str("1-7-2025.pdf"), region |-> Str("Visayas"), failure |-> "read",
     lines |-> <<>>] }

\* what getAllPDFs may return: at most MaxFiles different files of the directories
Listings(files) ==
    {ls \in UNION {[1..n -> files] : n \in 0..MaxFiles} :
        \A a, b \in DOMAIN ls : a # b => ls[a] # ls[b]}

-----------------------------------------------------------------------------
(* One call of a parser, line by line *)

Init ==
    /\ pc = "idle"
    /\ fn = "none"
    /\ region = <<>>
    /\ date = <<>>
    /\ debug = FALSE
    /\ consoleLog = 0
    /\ lines = <<>>
    /\ i = 1
    /\ currentMarket = <<>>
    /\ currentCategory = <<>>
    /\ currentCommodity = <<>>
    /\ currentFuelType = Null
    /\ results = <<>>
    /\ priceRanges = <<>>
    /\ stale = FALSE
    /\ bpc = "idle"
    /\ bfn = "none"
    /\ pdfs = <<>>
    /\ k = 1
    /\ allResults = <<>>
    /\ allPriceRanges = <<>>
    /\ consoleError = <<>>
    /\ op = "none"
    /\ arg = <<>>
    /\ ret = <<>>
    /\ rateLimitStore = <<>>
    /\ now = 0
    /\ req = <<>>
    /\ res = <<>>
    /\ passed = <<>>
    /\ prisma = [commodity |-> <<>>, price |-> {}]
    /\ rpc = "idle"
    /\ saveToDb = TRUE
    /\ scraper = 1
    /\ runResults = [scrapersRun |-> 0, newPrices |-> 0, errors |-> <<>>, scrapers |-> <<>>]
    /\ scraped = <<>>
    /\ saves = <<>>
    /\ outputDir = <<>>
    /\ mainRun = <<>>
    /\ redisConnected = FALSE
    /\ redisData = <<>>
    /\ nodeCache = <<>>
    /\ cacheStats = [hits |-> 0, misses |-> 0, sets |-> 0, deletes |-> 0]
    /\ clock = 0
    /\ cacheCall = [op |-> "none", key |-> <<>>, value |-> <<>>, ttl |-> 0, stage |-> "done",
                    rejected |-> FALSE, ret |-> <<>>, expected |-> <<>>]
    /\ httpRes = <<>>
    /\ cacheCalls = 0
    /\ lastSet = <<>>
    /\ getCalls = 0
    /\ setCalls = 0
    /\ hour = 24
    /\ timezone = 0
    /\ scheduled = FALSE
    /\ cronRan = 0
    /\ lastScraperRun = <<>>
    /\ nextScraperRun = <<>>
    /\ statusRes = <<>>

\* a call starts: the arguments are bound and the locals of the function initialised
Enter(f, ls, reg, dt, dbg) ==
    /\ pc = "idle"
    /\ pc' = "loop"
    /\ fn' = f
    /\ lines' = ls
    /\ region' = reg
    /\ date' = dt
    /\ debug' = dbg
    /\ consoleLog' = IF dbg THEN 3 ELSE 0
    /\ i' = 1
    /\ results' = <<>>
    /\ priceRanges' = <<>>
    /\ currentMarket' = InitialCurrentMarket(currentMarket)
    /\ currentCategory' = InitialCurrentCategory(currentCategory)
    /\ currentCommodity' = InitialCurrentCommodity(currentCommodity)
    /\ currentFuelType' = InitialCurrentFuelType(currentFuelType)
    /\ stale' = CASE f = "NCR" -> currentMarket # <<>>
                  [] f = "RX" -> currentCategory # <<>> \/ currentCommodity # <<>>
                  [] f = "DOE" -> currentFuelType # Null
                  [] OTHER -> FALSE
    /\ UNCHANGED <<batchVars, utilVars, webVars, svcVars>>

\* the DA extractPricesFromText(text, region, date, debug)
CallDA ==
    /\ pc = "idle"
    /\ \E reg \in DARegions, dt \in Dates, dbg \in BOOLEAN :
           \E ls \in DATexts(reg) : Enter(DAFormat(reg), ls, reg, dt, dbg)

\* the DOE extractPricesFromText(text, region, date, debug)
CallDOE ==
    /\ pc = "idle"
    /\ \E dt \in Dates, dbg \in BOOLEAN, ls \in Texts(DOEHeadings, DOELines) :
           Enter("DOE", ls, Str("Luzon"), dt, dbg)

\* parseDTIPDF(pdfPath, debug), from const lines = pdfData.text.split('\n') on
CallDTI ==
    /\ pc = "idle"
    /\ \E dbg \in BOOLEAN, ls \in Texts({}, DTILines) :
           Enter("DTI", ls, Str("National"), Str("2025-02-01"), dbg)

InLoop(f) == pc = "loop" /\ fn = f /\ i <= Len(lines)

\* the console.log calls of one iteration under debug: none for a line the
\* loop passes over; else the line itself (while shown: among the first 50 or
\* 30), then the heading found, or one call for each record pushed
debugLogs(dbg, shown, minLength, raw, found, pushed) ==
    IF ~dbg \/ Len(trim(raw)) < minLength THEN 0
    ELSE (IF shown THEN 1 ELSE 0) + (IF found THEN 1 ELSE pushed)

\* parseNCRFormat: one iteration of  for (let i = 0; i < lines.length; i++)
NCRLine ==
    /\ InLoop("NCR")
    /\ LET Apply(step) == /\ currentMarket' = step.currentMarket
                           /\ priceRanges' = priceRanges \o step.pushed
                           /\ consoleLog' = consoleLog + debugLogs(debug, i - 1 < 50, 3, lines[i],
                                                 isMarketName(trim(lines[i])), Len(step.pushed))
       IN Apply(NCRLineStep(lines[i], currentMarket, region, date))
    /\ i' = i + 1
    /\ UNCHANGED <<pc, fn, region, date, debug, lines, stale, currentCategory, currentCommodity,
                   currentFuelType, results>>
    /\ UNCHANGED <<batchVars, utilVars, webVars, svcVars>>

\* parseRXFormat: one iteration of the line loop
RXLine ==
    /\ InLoop("RX")
    /\ LET Apply(step) == /\ currentCategory' = step.currentCategory
                           /\ currentCommodity' = step.currentCommodity
                           /\ priceRanges' = priceRanges \o step.pushed
                           /\ consoleLog' = consoleLog + debugLogs(debug, i - 1 < 50, 3, lines[i],
                                                 \/ isRXCategoryHeader(trim(lines[i]))
                                                 \/ isRXCommodityType(trim(lines[i])),
                                                 Len(step.pushed))
       IN Apply(RXLineStep(lines[i], currentCategory, currentCommodity, region, date))
    /\ i' = i + 1
    /\ UNCHANGED <<pc, fn, region, date, debug, lines, stale, currentMarket, currentFuelType, results>>
    /\ UNCHANGED <<batchVars, utilVars, webVars, svcVars>>

\* parseGenericFormat: one iteration of the line loop
GenericLine ==
    /\ InLoop("Generic")
    /\ LET Apply(step) == /\ results' = results \o step.results
                           /\ priceRanges' = priceRanges \o step.priceRanges
                           /\ consoleLog' = consoleLog + debugLogs(debug, i - 1 < 30, 3, lines[i], FALSE,
                                                 Len(step.results) + Len(step.priceRanges))
       IN Apply(GenericLineStep(lines[i], region, date))
    /\ i' = i + 1
    /\ UNCHANGED <<pc, fn, region, date, debug, lines, stale, currentMarket, currentCategory,
                   currentCommodity, currentFuelType>>
    /\ UNCHANGED <<batchVars, utilVars, webVars, svcVars>>

\* DOE extractPricesFromText: one iteration of the line loop
DOELine ==
    /\ InLoop("DOE")
    /\ LET Apply(step) == /\ currentFuelType' = step.currentFuelType
                           /\ results' = results \o step.pushed
                           /\ consoleLog' = consoleLog + debugLogs(debug, i - 1 < 30, 2, lines[i],
                                                 Exec(FuelTypePattern, trim(lines[i])).ok,
                                                 Len(step.pushed))
       IN Apply(DOELineStep(lines[i], currentFuelType, region, date))
    /\ i' = i + 1
    /\ UNCHANGED <<pc, fn, region, date, debug, lines, stale, currentMarket, currentCategory,
                   currentCommodity, priceRanges>>
    /\ UNCHANGED <<batchVars, utilVars, webVars, svcVars>>

\* parseDTIPDF with the push made only when debug is off
DTILine_debugSkips ==
    /\ InLoop("DTI")
    /\ results' = IF debug THEN results ELSE results \o DTILineStep(lines[i])
    /\ consoleLog' = consoleLog + debugLogs(debug, TRUE, 5, lines[i], FALSE,
                                             Len(DTILineStep(lines[i])))
    /\ i' = i + 1
    /\ UNCHANGED <<pc, fn, region, date, debug, lines, stale, currentMarket, currentCategory,
                   currentCommodity, currentFuelType, priceRanges>>
    /\ UNCHANGED <<batchVars, utilVars, webVars, svcVars>>

\* parseDTIPDF: one iteration of  for (const line of lines)
DTILine ==
    /\ InLoop("DTI")
    /\ results' = results \o DTILineStep(lines[i])
    /\ consoleLog' = consoleLog + debugLogs(debug, TRUE, 5, lines[i], FALSE,
                                             Len(DTILineStep(lines[i])))
    /\ i' = i + 1
    /\ UNCHANGED <<pc, fn, region, date, debug, lines, stale, currentMarket, currentCategory,
                   currentCommodity, currentFuelType, priceRanges>>
    /\ UNCHANGED <<batchVars, utilVars, webVars, svcVars>>

\* return { results, priceRanges } / return results
Return ==
    /\ pc = "loop"
    /\ i > Len(lines)
    /\ pc' = "returned"
    /\ UNCHANGED <<fn, region, date, debug, consoleLog, lines, i, stale, currentMarket, currentCategory,
                   currentCommodity, currentFuelType, results, priceRanges>>
    /\ UNCHANGED <<batchVars, utilVars, webVars, svcVars>>

\* the caller takes the returned records and goes on; the frame of the call is
\* gone (what its locals held is kept only as the leftover a later call starts over)
Resume ==
    /\ pc = "returned"
    /\ pc' = "idle"
    /\ fn' = "none"
    /\ region' = <<>>
    /\ date' = <<>>
    /\ debug' = FALSE
    /\ consoleLog' = 0
    /\ lines' = <<>>
    /\ i' = 1
    /\ results' = <<>>
    /\ priceRanges' = <<>>
    /\ stale' = FALSE
    /\ UNCHANGED <<currentMarket, currentCategory, currentCommodity, currentFuelType>>
    /\ UNCHANGED <<batchVars, utilVars, webVars, svcVars>>

Next ==
    \/ CallDA
    \/ CallDOE
    \/ CallDTI
    \/ NCRLine
    \/ RXLine
    \/ GenericLine
    \/ DOELine
    \/ DTILine
    \/ Return
    \/ Resume

Spec == Init /\ [][Next]_vars

-----------------------------------------------------------------------------
(* The orchestrators, file by file *)

\* parseAllDAPDFs(debug) / parseAllDOEPDFs(debug) starts: const pdfs = getAllPDFs()
Start(f, listing, dbg) ==
    /\ bpc = "idle"
    /\ bpc' = "loop"
    /\ bfn' = f
    /\ pdfs' = listing
    /\ k' = 1
    /\ allResults' = <<>>
    /\ allPriceRanges' = <<>>
    /\ consoleError' = <<>>
    /\ debug' = dbg
    /\ UNCHANGED <<pc, fn, region, date, consoleLog, lines, i, currentMarket, currentCategory,
                   currentCommodity, currentFuelType, results, priceRanges, stale>>
    /\ UNCHANGED <<utilVars, webVars, svcVars>>

StartDA == \E listing \in Listings(DAFiles), dbg \in BOOLEAN : Start("DA", listing, dbg)

StartDOE == \E listing \in Listings(DOEFiles), dbg \in BOOLEAN : Start("DOE", listing, dbg)

\* console.error(`... Error processing ${pdf.filename}: ${err.message}`)
Logged(file, message) == [filename |-> file.filename, message |-> message]

\* parseAllDAPDFs: one iteration of  for (const pdf of pdfs), the try and the catch
DAFile ==
    /\ bpc = "loop" /\ bfn = "DA" /\ k <= Len(pdfs)
    /\ LET Settle(r) ==
               IF r.threw
               THEN /\ consoleError' = Append(consoleError, Logged(pdfs[k], r.message))
                    /\ UNCHANGED <<allResults, allPriceRanges>>
               ELSE /\ allResults' = allResults \o withFilename(r.value.results, pdfs[k].filename)
                    /\ allPriceRanges' =
                           allPriceRanges \o withFilename(r.value.priceRanges, pdfs[k].filename)
                    /\ UNCHANGED consoleError
       IN Settle(parseDAPDF(pdfs[k], debug))
    /\ k' = k + 1
    /\ UNCHANGED <<bpc, bfn, pdfs, callVars, utilVars, webVars, svcVars>>

\* parseAllDOEPDFs: one iteration of  for (const pdf of pdfs), the try and the catch
DOEFile ==
    /\ bpc = "loop" /\ bfn = "DOE" /\ k <= Len(pdfs)
    /\ LET Settle(r) ==
               IF r.threw
               THEN /\ consoleError' = Append(consoleError, Logged(pdfs[k], r.message))
                    /\ UNCHANGED allResults
               ELSE /\ allResults' = allResults \o withFilename(r.value, pdfs[k].filename)
                    /\ UNCHANGED consoleError
       IN Settle(parseDOEPDF(pdfs[k], debug))
    /\ k' = k + 1
    /\ UNCHANGED <<bpc, bfn, pdfs, allPriceRanges, callVars, utilVars, webVars, svcVars>>

\* return { allResults, allPriceRanges } / return allResults
BatchReturn ==
    /\ bpc = "loop" /\ k > Len(pdfs)
    /\ bpc' = "returned"
    /\ UNCHANGED <<bfn, pdfs, k, allResults, allPriceRanges, consoleError, callVars,
                   utilVars, webVars, svcVars>>

NextBatch ==
    \/ StartDA
    \/ StartDOE
    \/ DAFile
    \/ DOEFile
    \/ BatchReturn

\* the file loop takes its next iteration, whichever orchestrator runs
NextFile == bpc = "loop" /\ k <= Len(pdfs) /\ k' = k + 1

\* an orchestrator that has started goes on: an iteration awaits nothing but
\* the parse of its own file, and the return nothing at all
SpecBatch == Init /\ [][NextBatch]_vars /\ WF_k(NextFile) /\ WF_vars(BatchReturn)

-----------------------------------------------------------------------------
(* The utility functions, one call at a time *)

\* the names extractDateFromFilename is called with
Filenames == {
    Str("2025-06-20.pdf"), Str("06202025.pdf"), Str("20250620.pdf"), Str("06-20-2025.pdf"),
    Str("6/26/2025"), Str("6/27/2025.pdf"), Str("6/27/25"), Str("1-7-2025.pdf"),
    Str("rx June 26, 2025.pdf"), Str("April 7, 2025.pdf"), Str("March 15, 2024.pdf"),
    Str("Price-Monitoring-June-26-2025.pdf"), Str("luzon_06172025.pdf"), Str("bulletin.pdf")
}

\* a call f(x) of a utility function, made when no call is under way, returns y
Call(f, x, y) ==
    /\ op = "none"
    /\ op' = f
    /\ arg' = x
    /\ ret' = y
    /\ UNCHANGED <<callVars, batchVars, webVars, svcVars>>

DADateCall ==
    \E filename \in Filenames :
        Call("DAextractDateFromFilename", filename, DAextractDateFromFilename(filename))

DOEDateCall ==
    \E filename \in Filenames :
        Call("DOEextractDateFromFilename", filename, DOEextractDateFromFilename(filename))

\* extractUnit's table, in the order Object.entries walks it
unitMap == <<
    <<Str("per kg"), <<Str("per kg"), Str("per kilogram"), Str("kg"), Str("kilogram"), Str("kilo")>> >>,
    <<Str("per liter"), <<Str("per liter"), Str("per l"), Str("liter"), Str("litro"), Str("l")>> >>,
    <<Str("per piece"), <<Str("per piece"), Str("per pc"), Str("piece"), Str("pc"), Str("pcs")>> >>,
    <<Str("per dozen"), <<Str("per dozen"), Str("per dz"), Str("dozen"), Str("dz")>> >>,
    <<Str("per sack"), <<Str("per sack"), Str("sack"), Str("sacks")>> >>,
    <<Str("per bundle"), <<Str("per bundle"), Str("bundle"), Str("bundles")>> >>
>>

\* the test of one variant against the lower-cased, trimmed text
VariantMatches(variant, lowerText) ==
    IF variant = Str("l")
    THEN lowerText = Str("l") \/ lowerText = Str("per l")
    ELSE includes(lowerText, variant)

\* the standard unit of the first entry one of whose variants matches
extractUnit(text) ==
    IF text = <<>> THEN Str("per unit")
    ELSE LET lowerText == trim(toLowerCase(text))
             some == {n \in 1..Len(unitMap) :
                         \E j \in 1..Len(unitMap[n][2]) :
                             VariantMatches(unitMap[n][2][j], lowerText)}
         IN  IF some # {}
             THEN unitMap[CHOOSE n \in some : \A o \in some : n <= o][1]
             ELSE Str("per unit")

\* the texts extractUnit is called with
UnitTexts == {
    <<>>, Str("l"), Str("per l"), Str("L"), Str(" Per L "), Str("per liter"), Str("1 litro"),
    Str("per loaf"), Str("per lb"), Str("bundles"), Str("bottle"), Str("gallon"),
    Str("per kilogram"), Str("KG"), Str("kilo"), Str("per pc"), Str("pcs"), Str("piece"),
    Str("dozen pc"), Str("per dozen pcs"), Str("per dz"), Str("sacks"), Str("per sack"),
    Str("sack of 50 kg"), Str("bundle"), Str("each"), Str("per tray"), Str(" ")
}

extractUnitCall ==
    \E text \in UnitTexts : Call("extractUnit", text, extractUnit(text))

\* normalizeRegion's table
regionMap == <<
    <<Str("ncr"), Str("NCR")>>,
    <<Str("national capital region"), Str("NCR")>>,
    <<Str("metro manila"), Str("NCR")>>,
    <<Str("region vii"), Str("Region VII")>>,
    <<Str("region 7"), Str("Region VII")>>,
    <<Str("central visayas"), Str("Region VII")>>,
    <<Str("region iv-a"), Str("Region IV-A")>>,
    <<Str("region 4a"), Str("Region IV-A")>>,
    <<Str("calabarzon"), Str("Region IV-A")>>,
    <<Str("region iii"), Str("Region III")>>,
    <<Str("region 3"), Str("Region III")>>,
    <<Str("central luzon"), Str("Region III")>>,
    <<Str("region vi"), Str("Region VI")>>,
    <<Str("region 6"), Str("Region VI")>>,
    <<Str("western visayas"), Str("Region VI")>>,
    <<Str("region v"), Str("Region V")>>,
    <<Str("region 5"), Str("Region V")>>,
    <<Str("bicol region"), Str("Region V")>>,
    <<Str("region viii"), Str("Region VIII")>>,
    <<Str("region 8"), Str("Region VIII")>>,
    <<Str("eastern visayas"), Str("Region VIII")>>,
    <<Str("region ix"), Str("Region IX")>>,
    <<Str("region 9"), Str("Region IX")>>,
    <<Str("zamboanga peninsula"), Str("Region IX")>>,
    <<Str("region x"), Str("Region X")>>,
    <<Str("region 10"), Str("Region X")>>,
    <<Str("northern mindanao"), Str("Region X")>>,
    <<Str("region xi"), Str("Region XI")>>,
    <<Str("region 11"), Str("Region XI")>>,
    <<Str("davao region"), Str("Region XI")>>,
    <<Str("region xii"), Str("Region XII")>>,
    <<Str("region 12"), Str("Region XII")>>,
    <<Str("soccsksargen"), Str("Region XII")>>,
    <<Str("region xiii"), Str("Region XIII")>>,
    <<Str("region 13"), Str("Region XIII")>>,
    <<Str("caraga"), Str("Region XIII")>>,
    <<Str("car"), Str("CAR")>>,
    <<Str("cordillera administrative region"), Str("CAR")>>,
    <<Str("barmm"), Str("BARMM")>>,
    <<Str("bangsamoro autonomous region"), Str("BARMM")>>
>>

\* the names every object literal inherits from Object.prototype that are
\* their own lower-cased form
ObjectPrototypeNames == {Str("constructor"), Str("__proto__")}

\* regionMap[normalized]: the value of an own key, else the inherited value
\* (a function or an object, no string), else undefined
regionMapGet(normalized) ==
    IF \E n \in 1..Len(regionMap) : regionMap[n][1] = normalized
    THEN regionMap[CHOOSE n \in 1..Len(regionMap) : regionMap[n][1] = normalized][2]
    ELSE IF normalized \in ObjectPrototypeNames
         THEN <<"Object.prototype">> \o normalized
         ELSE Null

normalizeRegion(rawRegion) ==
    IF rawRegion = <<>> THEN <<>>
    ELSE LET normalized == toLowerCase(trim(rawRegion))
         IN  IF regionMapGet(normalized) # Null
             THEN regionMapGet(normalized)
             ELSE trim(rawRegion)

\* the regions normalizeRegion is called with: every key of the table as
\* written, in capitals and between blanks, and names outside the table
Regions ==
    UNION {{regionMap[n][1], toUpperCase(regionMap[n][1]), <<" ">> \o regionMap[n][1] \o <<" ">>,
            regionMap[n][2]} : n \in 1..Len(regionMap)}
    \cup {<<>>, Str("  "), Str("Neverland"), Str("  Cebu City "), Str("Region 14"),
          Str("constructor"), Str(" Constructor"), Str("__proto__"), Str("prototype")}

normalizeRegionCall ==
    \E r \in Regions : Call("normalizeRegion", r, normalizeRegion(r))

\* normalizeCommodityName: trimmed, lower-cased, each run of white space one
\* blank, no character other than \w, \s and -, each word's first letter a capital
RECURSIVE OneBlank(_)
OneBlank(s) ==
    IF s = <<>> THEN <<>>
    ELSE IF Head(s) \in WhiteSpace THEN <<" ">> \o OneBlank(trimStart(s))
    ELSE <<Head(s)>> \o OneBlank(Tail(s))
normalizeCommodityName(name) ==
    IF name = <<>> THEN <<>>
    ELSE LET kept == SelectSeq(OneBlank(toLowerCase(trim(name))),
                               LAMBDA c : c \in WordChars \cup WhiteSpace \cup {"-"})
         IN  [n \in 1..Len(kept) |->
                 IF (n = 1 \/ kept[n - 1] = " ") /\ kept[n] \in LowerLetters
                 THEN UpperOf[kept[n]] ELSE kept[n]]

\* /[₱P]?\s*([\d,]+\.?\d*)/g
priceRegex == <<
    Part(Opt(Set({"₱", "P"}))), Part(Star(WhiteSpace)),
    Grp(1, Cat(<<Plus(Digits \cup {","}), Opt(Set({"."})), Star(Digits)>>))
>>

\* extractPrice: the number, in hundredths, of the first match without its
\* commas, as <<number>>; null where nothing matches or the text is no number
extractPrice(text) ==
    LET m == Exec(priceRegex, text)
        priceStr == SelectSeq(Group(m, text, 1), LAMBDA c : c # ",")
    IN  IF text = <<>> \/ ~m.ok \/ isNaNparseFloat(priceStr) THEN Null
        ELSE <<parseFloat(priceStr)>>

\* Number.prototype.toString of the number v hundredths
RECURSIVE IntToString(_)
IntToString(n) ==
    IF n < 10 THEN <<DigitSeq[n + 1]>> ELSE IntToString(n \div 10) \o <<DigitSeq[(n % 10) + 1]>>
NumberToString(v) ==
    LET a == IF v < 0 THEN -v ELSE v
        frac == IF a % 100 = 0 THEN <<>>
                ELSE IF a % 10 = 0 THEN <<".", DigitSeq[((a % 100) \div 10) + 1]>>
                ELSE <<".", DigitSeq[((a % 100) \div 10) + 1], DigitSeq[(a % 10) + 1]>>
    IN  (IF v < 0 THEN <<"-">> ELSE <<>>) \o IntToString(a \div 100) \o frac

\* a price field holding a number, not a string, is <<"number", hundredths>>
IsNumber(price) == Len(price) = 2 /\ price[1] = "number"

\* normalizeSource's table, and the function
sourceMap == <<
    <<Str("dti"), Str("DTI")>>,
    <<Str("department of trade and industry"), Str("DTI")>>,
    <<Str("da"), Str("DA")>>,
    <<Str("department of agriculture"), Str("DA")>>,
    <<Str("doe"), Str("DOE")>>,
    <<Str("department of energy"), Str("DOE")>>,
    <<Str("local market"), Str("Local Market")>>,
    <<Str("market"), Str("Local Market")>>,
    <<Str("wholesale"), Str("Wholesale Market")>>,
    <<Str("retail"), Str("Retail Market")>>
>>
normalizeSource(source) ==
    IF source = <<>> THEN Str("Unknown")
    ELSE LET normalized == toLowerCase(trim(source))
             own == {n \in 1..Len(sourceMap) : sourceMap[n][1] = normalized}
         IN  IF own # {} THEN sourceMap[CHOOSE n \in own : TRUE][2]
             ELSE IF normalized \in ObjectPrototypeNames
                  THEN <<"Object.prototype">> \o normalized
                  ELSE trim(source)

\* isNaN(new Date(date).getTime()) for undefined and for the texts of the
\* model: valid are the dates YYYY-MM-DD with a month 01..12 and a day 01..31
isNaNDate(d) ==
    ~ /\ Len(d) = 10
      /\ \A n \in {1, 2, 3, 4, 6, 7, 9, 10} : d[n] \in Digits
      /\ d[5] = "-" /\ d[8] = "-"
      /\ parseFloat(SubSeq(d, 6, 7)) \in {100 * n : n \in 1..12}
      /\ parseFloat(SubSeq(d, 9, 10)) \in {100 * n : n \in 1..31}

\* validatePriceData: null is <<>>, a returned object r is <<r>>; the argument
\* is [typeof, fields], fields <<r>> for an object r and <<>> for null and for
\* what is no object; a property the object lacks is Null
validatePriceData(priceData) ==
    IF priceData.fields = <<>> \/ priceData.typeof # "object" THEN Null
    ELSE LET o == priceData.fields[1]
             falsyPrice == o.price = <<>> \/ (IsNumber(o.price) /\ o.price[2] = 0)
             normalizedPrice ==
                 extractPrice(IF IsNumber(o.price) THEN NumberToString(o.price[2]) ELSE o.price)
         IN  IF o.commodity = <<>> \/ falsyPrice \/ o.region = <<>> THEN Null
             ELSE IF normalizedPrice = Null \/ normalizedPrice[1] <= 0 THEN Null
             ELSE IF isNaNDate(o.date) THEN Null
             ELSE << [commodity |-> normalizeCommodityName(o.commodity),
                      price |-> normalizedPrice[1],
                      region |-> normalizeRegion(o.region),
                      unit |-> extractUnit(o.unit),
                      source |-> normalizeSource(o.source),
                      date |-> o.date] >>

\* what validatePriceData is called with
PriceDatas ==
    {[typeof |-> "object", fields |-> <<>>], [typeof |-> "undefined", fields |-> <<>>],
     [typeof |-> "string", fields |-> <<>>], [typeof |-> "number", fields |-> <<>>]}
    \cup {[typeof |-> "object", fields |-> <<o>>] :
             o \in [commodity : {Null, Str("Rice"), Str("  well   milled rice "), Str("rice (special)")},
                    price : {Null, Str("45.50"), Str("₱45.50"), Str("P 120"), Str("1,234.50"),
                             Str("invalid"), Str("0"), Str("-5"),
                             <<"number", 0>>, <<"number", 4550>>, <<"number", -500>>},
                    region : {Null, Str("ncr"), Str("Neverland")},
                    unit : {Null, Str("kg")},
                    source : {Null, Str("dti"), Str("Palengke")},
                    date : {Null, Str("2025-01-01"), Str("2025-13-01"), Str("soon")}]}

validatePriceDataCall ==
    \E priceData \in PriceDatas :
        Call("validatePriceData", priceData, validatePriceData(priceData))

\* parseInt of a query value written in decimal digits
parseInt(s) == DecimalValue(DigitsPrefix(s))

\* Array.prototype.slice(start, end) with 0 <= start <= end
slice(array, start, end) ==
    SubSeq(array, start + 1, IF end < Len(array) THEN end ELSE Len(array))

\* createPaginatedResponse: the data and meta.pagination of the response
createPaginatedResponse(data, page, limit, total) ==
    LET totalPages == (total + limit - 1) \div limit
    IN  [data |-> data,
         pagination |-> [page |-> page, limit |-> limit, total |-> total,
                         totalPages |-> totalPages,
                         hasNext |-> page < totalPages, hasPrev |-> page > 1]]

\* getDAPriceRanges with skip = pageNum * limitNum
getDAPriceRanges_skipPage(allRanges, query) ==
    LET pageNum == IF query.page = Null THEN 1 ELSE parseInt(query.page)
        limit == IF query.limit = Null THEN 50 ELSE parseInt(query.limit)
        limitNum == IF limit < 100 THEN limit ELSE 100
        skip == pageNum * limitNum
    IN  createPaginatedResponse(slice(allRanges, skip, skip + limitNum),
                                pageNum, limitNum, Len(allRanges))

\* getDAPriceRanges on the artifact allRanges (the file read and parsed); a
\* query parameter the request lacks is Null
getDAPriceRanges(allRanges, query) ==
    LET pageNum == IF query.page = Null THEN 1 ELSE parseInt(query.page)
        limit == IF query.limit = Null THEN 50 ELSE parseInt(query.limit)
        limitNum == IF limit < 100 THEN limit ELSE 100
        skip == (pageNum - 1) * limitNum
    IN  createPaginatedResponse(slice(allRanges, skip, skip + limitNum),
                                pageNum, limitNum, Len(allRanges))

\* the artifacts, of records 1, 2, ..., and the queries of the requests
Artifacts == {[n \in 1..total |-> n] : total \in {0, 1, 5, 6, 51, 100, 205}}
Queries == [page : {Null, Str("1"), Str("2"), Str("3"), Str("4")},
            limit : {Null, Str("1"), Str("2"), Str("3"), Str("100"), Str("150")}]

getDAPriceRangesCall ==
    \E allRanges \in Artifacts, query \in Queries :
        Call("getDAPriceRanges", [allRanges |-> allRanges, query |-> query],
             getDAPriceRanges(allRanges, query))

\* the caller has the result; the next call may be made
UtilReturn ==
    /\ op # "none"
    /\ op' = "none"
    /\ arg' = <<>>
    /\ ret' = <<>>
    /\ UNCHANGED <<callVars, batchVars, webVars, svcVars>>

NextUtils ==
    \/ DADateCall
    \/ DOEDateCall
    \/ extractUnitCall
    \/ normalizeRegionCall
    \/ validatePriceDataCall
    \/ getDAPriceRangesCall
    \/ UtilReturn

SpecUtils == Init /\ [][NextUtils]_vars

-----------------------------------------------------------------------------
(* The web server: the key check of the admin routes and the rate limiters *)

\* process.env.ADMIN_API_KEY and process.env.API_KEY
ADMIN_API_KEY == Str("test-admin-key")
API_KEY == Str("test-api-key")

\* String.prototype.startsWith
startsWith(s, prefix) == Len(prefix) <= Len(s) /\ SubSeq(s, 1, Len(prefix)) = prefix

\* s.replace(sub, ''): s without the first occurrence of sub
removeFirst(s, sub) ==
    LET at == {b \in 1..(Len(s) - Len(sub) + 1) : SubSeq(s, b, b + Len(sub) - 1) = sub}
        b == CHOOSE n \in at : \A o \in at : n <= o
    IN  IF at = {} THEN s ELSE SubSeq(s, 1, b - 1) \o SubSeq(s, b + Len(sub), Len(s))

\* const apiKey: a header the request lacks is Null
apiKeyOf(headers) ==
    IF headers.xApiKey # <<>> THEN headers.xApiKey
    ELSE IF headers.authorization # <<>> THEN removeFirst(headers.authorization, Str("Bearer "))
    ELSE Null

\* apiKeyAuth without the comparison with the admin key
apiKeyAuth_noAdminCheck(r) ==
    LET apiKey == apiKeyOf(r.headers)
        Answer(status) == [next |-> FALSE, status |-> status]
        Proceed == [next |-> TRUE, status |-> 0]
    IN  IF apiKey = <<>> THEN Answer(401)
        ELSE IF startsWith(r.originalUrl, Str("/v1/admin"))
             THEN IF apiKey = API_KEY \/ apiKey = Str("test-key") THEN Answer(403)
                  ELSE Proceed
             ELSE IF apiKey # API_KEY /\ apiKey # ADMIN_API_KEY THEN Answer(401)
                  ELSE Proceed

\* apiKeyAuth: the status it answers, or next()
apiKeyAuth(r) ==
    LET apiKey == apiKeyOf(r.headers)
        Answer(status) == [next |-> FALSE, status |-> status]
        Proceed == [next |-> TRUE, status |-> 0]
    IN  IF apiKey = <<>> THEN Answer(401)
        ELSE IF startsWith(r.originalUrl, Str("/v1/admin"))
             THEN IF apiKey = API_KEY \/ apiKey = Str("test-key") THEN Answer(403)
                  ELSE IF apiKey # ADMIN_API_KEY THEN Answer(401)
                  ELSE Proceed
             ELSE IF apiKey # API_KEY /\ apiKey # ADMIN_API_KEY THEN Answer(401)
                  ELSE Proceed

\* RATE_LIMIT_WINDOW_MS, RATE_LIMIT_MAX_REQUESTS and ADMIN_RATE_LIMIT_MAX_REQUESTS
\* of the environment, and the last instant of the clock
WindowMs == 1
GeneralMax == 2
StrictMax == 1
MaxTime == 2

\* req.ip of the clients
Keys == {"10.0.0.1", "10.0.0.2"}

\* the middleware createRateLimiter(windowMs, max) returns, on a request of
\* key: whether it calls next(), the store it leaves, the header
\* X-RateLimit-Remaining it sets, and whether it began a window for the key
createRateLimiter(windowMs, max, key) ==
    LET fresh == [count |-> 0, resetTime |-> now + windowMs]
        store == IF key \in DOMAIN rateLimitStore THEN rateLimitStore
                 ELSE (key :> fresh) @@ rateLimitStore
        reset == now > store[key].resetTime
        record == IF reset THEN fresh ELSE store[key]
        counted == [record EXCEPT !.count = @ + 1]
    IN  IF record.count >= max
        THEN [next |-> FALSE, store |-> [store EXCEPT ![key] = record], remaining |-> <<>>,
              began |-> reset \/ key \notin DOMAIN rateLimitStore]
        ELSE [next |-> TRUE, store |-> [store EXCEPT ![key] = counted],
              remaining |-> <<IF max - counted.count > 0 THEN max - counted.count ELSE 0>>,
              began |-> reset \/ key \notin DOMAIN rateLimitStore]

generalLimiter(key) == createRateLimiter(WindowMs, GeneralMax, key)
strictLimiter_ownRecord(key) ==
    createRateLimiter(WindowMs, StrictMax,
                      IF key = "10.0.0.1" THEN "strict:10.0.0.1" ELSE "strict:10.0.0.2")
strictLimiter(key) == createRateLimiter(WindowMs, StrictMax, key)

\* history: the requests limiter has passed to next() for key since the key's
\* record was last begun
Passed(limiter, key) ==
    IF <<limiter, key>> \in DOMAIN passed THEN passed[<<limiter, key>>] ELSE 0
Counted(limiter, key, out) ==
    LET since == IF out.began
                 THEN [lk \in DOMAIN passed |-> IF lk[2] = key THEN 0 ELSE passed[lk]]
                 ELSE passed
        before == IF out.began THEN 0 ELSE Passed(limiter, key)
    IN  IF out.next THEN (<<limiter, key>> :> (before + 1)) @@ since ELSE since

\* the response of a limiter that does not call next()
TooManyRequests == [status |-> 429, success |-> FALSE, remaining |-> <<>>, handler |-> "none"]

\* the headers of the requests to the admin routes
Headers == {
    [xApiKey |-> Null, authorization |-> Null],
    [xApiKey |-> ADMIN_API_KEY, authorization |-> Null],
    [xApiKey |-> API_KEY, authorization |-> Null],
    [xApiKey |-> Str("test-key"), authorization |-> Null],
    [xApiKey |-> Str("invalid-key"), authorization |-> Null],
    [xApiKey |-> Null, authorization |-> Str("Bearer test-admin-key")],
    [xApiKey |-> Null, authorization |-> Str("Basic invalid")],
    [xApiKey |-> Null, authorization |-> Str("test-Bearer admin-key")]
}

\* app.use('/v1/commodities', generalLimiter, ...): the limiter, then the
\* route, whatever status it answers
PublicRequest ==
    \E key \in Keys, url \in {Str("/v1/commodities")}, status \in {200, 400} :
        LET out == generalLimiter(key)
        IN  /\ req' = [ip |-> key, originalUrl |-> url,
                       headers |-> [xApiKey |-> Null, authorization |-> Null]]
            /\ rateLimitStore' = out.store
            /\ passed' = Counted("generalLimiter", key, out)
            /\ res' = IF out.next
                      THEN [status |-> status, success |-> status = 200,
                            remaining |-> out.remaining, handler |-> "publicRoutes"]
                      ELSE TooManyRequests
            /\ UNCHANGED <<now, callVars, batchVars, utilVars, svcVars>>

\* app.use('/v1/admin', apiKeyAuth, strictLimiter, adminRoutes): the path is
\* matched whatever its case; the route answers 200 (the statuses of a route
\* vary in PublicRequest)
AdminRequest ==
    \E key \in Keys, url \in {Str("/v1/admin/test"), Str("/V1/Admin/test")},
       headers \in Headers, status \in {200} :
        LET r == [ip |-> key, originalUrl |-> url, headers |-> headers]
            auth == apiKeyAuth(r)
            out == strictLimiter(key)
        IN  /\ req' = r
            /\ IF ~auth.next
               THEN /\ res' = [status |-> auth.status, success |-> FALSE,
                               remaining |-> <<>>, handler |-> "none"]
                    /\ UNCHANGED <<rateLimitStore, passed>>
               ELSE /\ rateLimitStore' = out.store
                    /\ passed' = Counted("strictLimiter", key, out)
                    /\ res' = IF out.next
                              THEN [status |-> status, success |-> status = 200,
                                    remaining |-> out.remaining, handler |-> "adminRoutes"]
                              ELSE TooManyRequests
            /\ UNCHANGED <<now, callVars, batchVars, utilVars, svcVars>>

\* rateLimitStore.clear()
clearRateLimitStore ==
    /\ rateLimitStore' = <<>>
    /\ passed' = <<>>
    /\ UNCHANGED <<now, req, res, callVars, batchVars, utilVars, svcVars>>

\* a millisecond passes
Tick ==
    /\ now < MaxTime
    /\ now' = now + 1
    /\ UNCHANGED <<rateLimitStore, req, res, passed, callVars, batchVars, utilVars, svcVars>>

NextWeb ==
    \/ PublicRequest
    \/ AdminRequest
    \/ clearRateLimitStore
    \/ Tick

SpecWeb == Init /\ [][NextWeb]_vars

-----------------------------------------------------------------------------
(* The scrapers: saveToDatabase and runAllScrapers *)

(* The database is the two tables of the schema.  commodities is kept in    *)
(* the order of creation and the id of a commodity is its position; prices  *)
(* is a set of rows.  A create that breaks a unique constraint fails with   *)
(* the code P2002; a price that does not fit Decimal(10, 2) fails with the  *)
(* code P2020.  A date is a day and a time of that day, and the column      *)
(* date of prices (@db.Date) keeps the day.  Prices are whole pesos here.   *)

\* generateSlug(name)
RECURSIVE OneHyphen(_)
OneHyphen(s) ==
    IF s = <<>> THEN <<>>
    ELSE IF Head(s) = "-" /\ Tail(s) # <<>> /\ Head(Tail(s)) = "-" THEN OneHyphen(Tail(s))
    ELSE <<Head(s)>> \o OneHyphen(Tail(s))
generateSlug(name) ==
    LET kept == OneBlank(SelectSeq(toLowerCase(name),
                                   LAMBDA c : c \in WordChars \cup WhiteSpace \cup {"-"}))
    IN  trim(OneHyphen([n \in 1..Len(kept) |-> IF kept[n] = " " THEN "-" ELSE kept[n]]))

\* getCommodityCategory(commodityName)
getCommodityCategory(commodityName) ==
    LET name == toLowerCase(commodityName)
        Has(words) == \E w \in words : includes(name, Str(w))
    IN  IF Has({"rice", "corn", "wheat"}) THEN "Grains"
        ELSE IF Has({"onion", "tomato", "vegetable"}) THEN "Vegetables"
        ELSE IF Has({"diesel", "gasoline", "fuel"}) THEN "Fuel"
        ELSE IF Has({"pork", "chicken", "beef"}) THEN "Meat"
        ELSE "Other"

\* prisma.commodity.findFirst({ where: { name } }): <<the row>>, or null
commodityFindFirst(db, name) ==
    LET found == {n \in 1..Len(db.commodity) : db.commodity[n].name = name}
    IN  IF found = {} THEN Null
        ELSE <<db.commodity[CHOOSE n \in found : \A m \in found : n <= m]>>

\* prisma.commodity.create({ data }): name String @unique, slug String @unique
commodityCreate(db, data) ==
    IF \E n \in 1..Len(db.commodity) :
           db.commodity[n].name = data.name \/ db.commodity[n].slug = data.slug
    THEN [code |-> "P2002", db |-> db, id |-> 0]
    ELSE [code |-> "ok",
          db |-> [db EXCEPT !.commodity =
                     Append(@, [id |-> Len(db.commodity) + 1, name |-> data.name,
                                category |-> data.category, slug |-> data.slug])],
          id |-> Len(db.commodity) + 1]

\* Decimal(10, 2) holds less than 10^8; the prices of this section are whole pesos
DecimalLimit == 100000000

\* the key of @@unique([commodityId, region, date, source])
unique_price_entry(row) == <<row.commodityId, row.region, row.date, row.source>>

\* prisma.price.create({ data }) with no unique constraint on the table
priceCreate_noUnique(db, data) ==
    LET row == [data EXCEPT !.date = data.date.day]
    IN  IF data.price >= DecimalLimit THEN [code |-> "P2020", db |-> db]
        ELSE [code |-> "ok", db |-> [db EXCEPT !.price = @ \cup {row}]]

\* prisma.price.create({ data })
priceCreate(db, data) ==
    LET row == [data EXCEPT !.date = data.date.day]
    IN  IF data.price >= DecimalLimit THEN [code |-> "P2020", db |-> db]
        ELSE IF \E other \in db.price : unique_price_entry(other) = unique_price_entry(row)
        THEN [code |-> "P2002", db |-> db]
        ELSE [code |-> "ok", db |-> [db EXCEPT !.price = @ \cup {row}]]

\* saveToDatabase: for (const priceData of prices), from record n on
RECURSIVE saveLoop(_, _, _, _, _)
saveLoop(db, prices, n, savedCount, errors) ==
    IF n > Len(prices) THEN [db |-> db, savedCount |-> savedCount, errors |-> errors]
    ELSE LET priceData == prices[n]
             found == commodityFindFirst(db, priceData.commodity)
             commodity ==
                 IF found # Null THEN [code |-> "ok", db |-> db, id |-> found[1].id]
                 ELSE commodityCreate(db, [name |-> priceData.commodity,
                                           category |-> getCommodityCategory(priceData.commodity),
                                           slug |-> generateSlug(priceData.commodity)])
             price == priceCreate(commodity.db,
                                  [commodityId |-> commodity.id, price |-> priceData.price,
                                   unit |-> priceData.unit, region |-> priceData.region,
                                   source |-> priceData.source, date |-> priceData.date])
         IN  IF commodity.code # "ok"
             THEN saveLoop(commodity.db, prices, n + 1, savedCount, errors)
             ELSE IF price.code = "ok"
             THEN saveLoop(price.db, prices, n + 1, savedCount + 1, errors)
             ELSE IF price.code = "P2002"
             THEN saveLoop(price.db, prices, n + 1, savedCount, errors)
             ELSE saveLoop(price.db, prices, n + 1, savedCount,
                           Append(errors, priceData.commodity))

\* saveToDatabase(prices)
saveToDatabase(db, prices) ==
    IF prices = <<>> THEN [db |-> db, savedCount |-> 0, errors |-> <<>>]
    ELSE saveLoop(db, prices, 1, 0, <<>>)

\* const scrapers = [new DTIScraper(), new DAScraper()], by name
scrapers == <<"DTI Scraper", "DA Scraper">>

\* the records a scrape() may return: validated price data of the scraper's source
Today == Str("2025-02-01")
PriceData(commodity, price, reg, source, time) ==
    [commodity |-> Str(commodity), price |-> price, unit |-> Str("per kg"), region |-> Str(reg),
     source |-> Str(source), date |-> [day |-> Today, time |-> time]]
ScrapedPrices(name) ==
    IF name = "DTI Scraper"
    THEN {PriceData("Rice", 45, "NCR", "DTI", 0), PriceData("Rice", 46, "NCR", "DTI", 1),
          PriceData("Red Onion", 120, "NCR", "DTI", 0)}
    ELSE {PriceData("Rice", 45, "NCR", "DA", 0), PriceData("Red-onion", 110, "NCR", "DA", 0),
          PriceData("Rice", DecimalLimit, "Region VII", "DA", 0)}

\* the longest list a scrape() returns
MaxPrices == 2

\* what scraper.scrape() does: it throws, or it returns a list of records
ScrapeOutcomes(name) ==
    {[threw |-> TRUE, prices |-> <<>>]}
    \cup {[threw |-> FALSE, prices |-> prices] :
             prices \in UNION {[1..n -> ScrapedPrices(name)] : n \in 0..MaxPrices}}

\* runAllScrapers(saveToDb, outputToFile) starts: const results = {...}
StartRun ==
    /\ rpc = "idle"
    /\ rpc' = "loop"
    /\ saveToDb' \in BOOLEAN
    /\ scraper' = 1
    /\ runResults' = [scrapersRun |-> 0, newPrices |-> 0, errors |-> <<>>, scrapers |-> <<>>]
    /\ scraped' = <<>>
    /\ saves' = <<>>
    /\ UNCHANGED prisma
    /\ UNCHANGED exceptScrape

\* runAllScrapers: one iteration of  for (const scraper of scrapers).  The
\* files of the output directory (outputToJsonFile, which catches its own
\* errors) are not part of the state.
RunScraper ==
    /\ rpc = "loop"
    /\ scraper <= Len(scrapers)
    /\ \E outcome \in ScrapeOutcomes(scrapers[scraper]) :
          LET name == scrapers[scraper]
              prices == outcome.prices
              saved == IF saveToDb THEN saveToDatabase(prisma, prices)
                       ELSE [db |-> prisma, savedCount |-> 0, errors |-> <<>>]
              Summary(success, found, count, errors) ==
                  (name :> [success |-> success, pricesFound |-> found, pricesSaved |-> count,
                            errors |-> errors]) @@ runResults.scrapers
          IN  /\ scraped' = Append(scraped, [scraper |-> name, threw |-> outcome.threw,
                                             prices |-> prices])
              /\ IF outcome.threw
                 THEN /\ runResults' = [runResults EXCEPT
                                           !.errors = Append(@, name),
                                           !.scrapers = Summary(FALSE, 0, 0, <<"error.message">>)]
                      /\ UNCHANGED <<prisma, saves>>
                 ELSE IF prices = <<>>
                 THEN /\ runResults' = [runResults EXCEPT !.scrapers = Summary(TRUE, 0, 0, <<>>)]
                      /\ UNCHANGED <<prisma, saves>>
                 ELSE /\ prisma' = saved.db
                      /\ saves' = IF saveToDb
                                  THEN Append(saves, [prices |-> prices, before |-> prisma,
                                                      after |-> saved.db,
                                                      savedCount |-> saved.savedCount])
                                  ELSE saves
                      /\ runResults' = [runResults EXCEPT
                                           !.scrapersRun = @ + 1,
                                           !.newPrices = @ + saved.savedCount,
                                           !.scrapers = Summary(TRUE, Len(prices),
                                                                saved.savedCount, <<>>)]
    /\ scraper' = scraper + 1
    /\ UNCHANGED <<rpc, saveToDb>>
    /\ UNCHANGED exceptScrape

\* runAllScrapers after the loop (generateCombinedOutput catches its own
\* errors): return results
FinishRun ==
    /\ rpc = "loop"
    /\ scraper > Len(scrapers)
    /\ rpc' = "done"
    /\ UNCHANGED <<prisma, saveToDb, scraper, runResults, scraped, saves>>
    /\ UNCHANGED exceptScrape

\* the caller has the results, and the locals of the call are gone
ReturnRun ==
    /\ rpc = "done"
    /\ rpc' = "idle"
    /\ saveToDb' = TRUE
    /\ scraper' = 1
    /\ runResults' = [scrapersRun |-> 0, newPrices |-> 0, errors |-> <<>>, scrapers |-> <<>>]
    /\ scraped' = <<>>
    /\ saves' = <<>>
    /\ UNCHANGED prisma
    /\ UNCHANGED exceptScrape

NextScrape == StartRun \/ RunScraper \/ FinishRun \/ ReturnRun

SpecScrape == Init /\ [][NextScrape]_vars

-----------------------------------------------------------------------------
(* The main of da_parser and of doe_parser: one run, and the files it writes *)

\* what parseDAPDF and parseDOEPDF make of each file a directory may hold
DAParsedFile == [file \in DAFiles |-> parseDAPDF(file, FALSE)]
DOEParsedFile == [file \in DOEFiles |-> parseDOEPDF(file, FALSE)]

\* parseAllDAPDFs(debug) as a function of what getAllPDFs returns
RECURSIVE parseAllDAPDFsFrom(_, _)
parseAllDAPDFsFrom(listing, n) ==
    IF n > Len(listing) THEN [allResults |-> <<>>, allPriceRanges |-> <<>>]
    ELSE LET r == DAParsedFile[listing[n]]
             later == parseAllDAPDFsFrom(listing, n + 1)
         IN  IF r.threw THEN later
             ELSE [allResults |->
                       withFilename(r.value.results, listing[n].filename) \o later.allResults,
                   allPriceRanges |->
                       withFilename(r.value.priceRanges, listing[n].filename)
                           \o later.allPriceRanges]
parseAllDAPDFs(listing) == parseAllDAPDFsFrom(listing, 1)

\* parseAllDOEPDFs(debug) as a function of what getAllPDFs returns
RECURSIVE parseAllDOEPDFsFrom(_, _)
parseAllDOEPDFsFrom(listing, n) ==
    IF n > Len(listing) THEN <<>>
    ELSE LET r == DOEParsedFile[listing[n]]
             later == parseAllDOEPDFsFrom(listing, n + 1)
         IN  IF r.threw THEN later ELSE withFilename(r.value, listing[n].filename) \o later
parseAllDOEPDFs(listing) == parseAllDOEPDFsFrom(listing, 1)

\* the keys of byRegion in the order the records insert them
RECURSIVE RegionsOf(_)
RegionsOf(records) ==
    IF records = <<>> THEN <<>>
    ELSE LET earlier == RegionsOf(SubSeq(records, 1, Len(records) - 1))
             last == records[Len(records)].region
         IN  IF \E n \in 1..Len(earlier) : earlier[n] = last THEN earlier
             ELSE Append(earlier, last)

\* byRegion[region].prices, byRegion[region].ranges
OfRegion(records, reg) == SelectSeq(records, LAMBDA record : record.region = reg)

\* `latest_prices_da_${region.toLowerCase().replace(/\s+/g, '_')}.json`
DARegionFile(prefix, reg) ==
    LET blanks == OneBlank(toLowerCase(reg))
    IN  Str(prefix) \o [n \in 1..Len(blanks) |-> IF blanks[n] = " " THEN "_" ELSE blanks[n]]
            \o Str(".json")

\* `latest_prices_doe_${region.toLowerCase()}.json`
DOERegionFile(reg) == Str("latest_prices_doe_") \o toLowerCase(reg) \o Str(".json")

\* fs.writeFileSync(path, JSON.stringify(records, null, 2))
writeFileSync(dir, path, records) == (path :> records) @@ dir

\* da_parser: for (const [region, data] of Object.entries(byRegion)), from key n on
RECURSIVE DASaveByRegion(_, _, _, _, _)
DASaveByRegion(dir, keys, n, prices, ranges) ==
    IF n > Len(keys) THEN dir
    ELSE LET data == [prices |-> OfRegion(prices, keys[n]), ranges |-> OfRegion(ranges, keys[n])]
             withPrices == writeFileSync(dir, DARegionFile("latest_prices_da_", keys[n]),
                                         data.prices)
             withRanges == IF Len(data.ranges) > 0
                           THEN writeFileSync(withPrices,
                                              DARegionFile("latest_price_ranges_da_", keys[n]),
                                              data.ranges)
                           ELSE withPrices
         IN  DASaveByRegion(withRanges, keys, n + 1, prices, ranges)

\* da_parser: what the run leaves in OUTPUT_DIR
DAMainWrites(dir, prices, ranges) ==
    IF Len(prices) > 0 \/ Len(ranges) > 0
    THEN LET withPrices == writeFileSync(dir, Str("latest_prices_da.json"), prices)
             withRanges == IF Len(ranges) > 0
                           THEN writeFileSync(withPrices, Str("latest_price_ranges_da.json"),
                                              ranges)
                           ELSE withPrices
         IN  DASaveByRegion(withRanges, RegionsOf(prices \o ranges), 1, prices, ranges)
    ELSE dir

\* doe_parser: for (const [region, entries] of Object.entries(byRegion)), from key n on
RECURSIVE DOESaveByRegion(_, _, _, _)
DOESaveByRegion(dir, keys, n, prices) ==
    IF n > Len(keys) THEN dir
    ELSE DOESaveByRegion(writeFileSync(dir, DOERegionFile(keys[n]), OfRegion(prices, keys[n])),
                         keys, n + 1, prices)

\* doe_parser: what the run leaves in OUTPUT_DIR
DOEMainWrites(dir, prices) ==
    IF Len(prices) > 0
    THEN DOESaveByRegion(writeFileSync(dir, Str("latest_prices_doe.json"), prices),
                         RegionsOf(prices), 1, prices)
    ELSE dir

\* what parseAllDAPDFs and parseAllDOEPDFs may return, over the listings of the directories
DAParsed == {parseAllDAPDFs(listing) : listing \in Listings(DAFiles)}
DOEParsed == {parseAllDOEPDFs(listing) : listing \in Listings(DOEFiles)}

\* node da_parser.js: parse all PDFs, then save to files
DAMain ==
    \E parsed \in DAParsed :
        /\ outputDir' = DAMainWrites(outputDir, parsed.allResults, parsed.allPriceRanges)
        /\ mainRun' = [agency |-> "DA", results |-> parsed.allResults,
                       priceRanges |-> parsed.allPriceRanges]
        /\ UNCHANGED exceptMain

\* node doe_parser.js: parse all PDFs, then save to files
DOEMain ==
    \E parsed \in DOEParsed :
        /\ outputDir' = DOEMainWrites(outputDir, parsed)
        /\ mainRun' = [agency |-> "DOE", results |-> parsed, priceRanges |-> <<>>]
        /\ UNCHANGED exceptMain

NextMain == DAMain \/ DOEMain

SpecMain == Init /\ [][NextMain]_vars

-----------------------------------------------------------------------------
(* The cache: cacheUtils over Redis, with node-cache as the fallback *)

(* Redis is enabled (ENABLE_REDIS_CACHE).  A call of cacheUtils that finds  *)
(* Redis available sends its command and waits: the command is then either *)
(* executed by the server and answered, or rejected, whatever the           *)
(* connection events in between.  One call is under way at a time.  An      *)
(* entry of either store is gone once the clock reaches its expiry.         *)

\* JSON.stringify(value) and JSON.parse(text); a promise has no own property
JSONstringify(value) ==
    IF "promise" \in DOMAIN value THEN [json |-> <<>>] ELSE [json |-> value]
JSONparse(text) == text.json

\* const isRedisAvailable = () => ENABLE_REDIS_CACHE && redis && redisConnected
isRedisAvailable == redisConnected

\* the entry of a store under a key, if it has not expired
Live(store, key) == key \in DOMAIN store /\ store[key].expires > clock
Put(store, key, value, ttl) == (key :> [value |-> value, expires |-> clock + ttl]) @@ store
Without(store, keys) == [key \in DOMAIN store \ keys |-> store[key]]

\* cacheUtils.get, the part after the Redis branch, which leaves the counters alone
getFallback_uncounted(key) ==
    LET value == IF Live(nodeCache, key) THEN nodeCache[key].value ELSE Null
    IN  [cacheStats |-> cacheStats, ret |-> value]

\* cacheUtils.get, the part after the Redis branch: const value = nodeCache.get(key)
getFallback(key) ==
    LET value == IF Live(nodeCache, key) THEN nodeCache[key].value ELSE Null
    IN  [cacheStats |-> IF value # Null THEN [cacheStats EXCEPT !.hits = @ + 1]
                        ELSE [cacheStats EXCEPT !.misses = @ + 1],
         ret |-> value]

\* the keys and the values of the calls, and the time to live (in ticks)
CacheQueries == {[region |-> Null, category |-> Null, limit |-> Null, page |-> Null],
                 [region |-> Str("NCR"), category |-> Null, limit |-> Str("150"),
                  page |-> Str("2")]}
cacheKeyOf(query) ==
    <<"latest_prices", IF query.region = Null THEN Str("all") ELSE query.region,
      IF query.category = Null THEN Str("all") ELSE query.category,
      LET limit == IF query.limit = Null THEN 50 ELSE parseInt(query.limit)
      IN  IF limit < 100 THEN limit ELSE 100,
      IF query.page = Null THEN 1 ELSE parseInt(query.page)>>
CacheKeys == {cacheKeyOf(query) : query \in CacheQueries}
CacheValues == {createPaginatedResponse(<<>>, 1, 50, 0),
                createPaginatedResponse(<<"price">>, 1, 50, 1)}
Ttl == 2
MaxClock == 2
MaxCalls == 3

\* a call of cacheUtils can start: none is under way
CanCall == cacheCall.stage = "done" /\ cacheCalls < MaxCalls

\* the call completes: the state it leaves, what it returns, and the histories
Complete(c, connected, redisAfter, nodeAfter, statsAfter, returned) ==
    /\ redisConnected' = connected
    /\ redisData' = redisAfter
    /\ nodeCache' = nodeAfter
    /\ cacheStats' = statsAfter
    /\ cacheCall' = [c EXCEPT !.stage = "done", !.ret = returned,
                              !.expected = IF c.op = "get" /\ Live(lastSet, c.key)
                                           THEN lastSet[c.key].value ELSE Null]
    /\ lastSet' = CASE c.op = "set" -> Put(lastSet, c.key, c.value, c.ttl)
                    [] c.op = "del" -> Without(lastSet, {c.key})
                    [] c.op = "flush" -> <<>>
                    [] OTHER -> lastSet
    /\ getCalls' = CASE c.op = "get" -> getCalls + 1 [] c.op = "flush" -> 0 [] OTHER -> getCalls
    /\ setCalls' = CASE c.op = "set" -> setCalls + 1 [] c.op = "flush" -> 0 [] OTHER -> setCalls

\* the part of a call after its Redis branch: the fallback to node-cache (get,
\* set, del), and for flush what is always done
Fallback(c, connected, redisAfter) ==
    CASE c.op = "get" ->
           Complete(c, connected, redisAfter, nodeCache, getFallback(c.key).cacheStats,
                    getFallback(c.key).ret)
      [] c.op = "set" ->
           Complete(c, connected, redisAfter, Put(nodeCache, c.key, c.value, c.ttl),
                    [cacheStats EXCEPT !.sets = @ + 1], Null)
      [] c.op = "del" ->
           LET deleted == IF Live(nodeCache, c.key) THEN 1 ELSE 0
           IN  Complete(c, connected, redisAfter, Without(nodeCache, {c.key}),
                        [cacheStats EXCEPT !.deletes = @ + deleted], deleted)
      [] OTHER ->
           Complete(c, connected, redisAfter, <<>>,
                    [hits |-> 0, misses |-> 0, sets |-> 0, deletes |-> 0], Null)

\* cacheUtils.get / set / del / flush is called: up to its await, or to its end
\* if Redis is not available
CacheCall(o, key, value) ==
    /\ CanCall
    /\ cacheCalls' = cacheCalls + 1
    /\ UNCHANGED exceptCache
    /\ LET c == [op |-> o, key |-> key, value |-> value, ttl |-> Ttl, stage |-> "redis",
                 rejected |-> FALSE, ret |-> Null, expected |-> Null]
       IN  IF isRedisAvailable
           THEN /\ cacheCall' = c
                /\ UNCHANGED <<redisConnected, redisData, nodeCache, cacheStats, lastSet,
                               getCalls, setCalls>>
           ELSE Fallback(c, redisConnected, redisData)

CacheGet == \E key \in CacheKeys : CacheCall("get", key, Null) /\ UNCHANGED <<clock, httpRes>>
CacheSet ==
    \E key \in CacheKeys, value \in CacheValues :
        CacheCall("set", key, value) /\ UNCHANGED <<clock, httpRes>>
CacheDel == \E key \in CacheKeys : CacheCall("del", key, Null) /\ UNCHANGED <<clock, httpRes>>
CacheFlush == CacheCall("flush", Null, Null) /\ UNCHANGED <<clock, httpRes>>

\* the command sent to Redis is answered: the rest of the try block
RedisAnswers ==
    /\ cacheCall.stage = "redis"
    /\ LET c == cacheCall
           value == IF Live(redisData, c.key) THEN redisData[c.key].value ELSE Null
           deleted == IF Live(redisData, c.key) THEN 1 ELSE 0
       IN  CASE c.op = "get" ->
                  IF value # Null
                  THEN Complete(c, redisConnected, redisData, nodeCache,
                                [cacheStats EXCEPT !.hits = @ + 1], JSONparse(value))
                  ELSE Complete(c, redisConnected, redisData, nodeCache,
                                [cacheStats EXCEPT !.misses = @ + 1], Null)
             [] c.op = "set" ->
                  Complete(c, redisConnected, Put(redisData, c.key, JSONstringify(c.value), c.ttl),
                           nodeCache, [cacheStats EXCEPT !.sets = @ + 1], Null)
             [] c.op = "del" ->
                  Complete(c, redisConnected, Without(redisData, {c.key}), nodeCache,
                           [cacheStats EXCEPT !.deletes = @ + deleted], deleted)
             [] OTHER -> Fallback(c, redisConnected, <<>>)
    /\ UNCHANGED <<clock, httpRes, cacheCalls>>
    /\ UNCHANGED exceptCache

\* the command sent to Redis is rejected: the catch block, then the fallback
RedisRejects ==
    /\ cacheCall.stage = "redis"
    /\ Fallback([cacheCall EXCEPT !.rejected = TRUE], FALSE, redisData)
    /\ UNCHANGED <<clock, httpRes, cacheCalls>>
    /\ UNCHANGED exceptCache

\* redis.on('connect'): connected is TRUE; redis.on('error') and redis.on('close'):
\* connected is FALSE
RedisEvent ==
    /\ redisConnected' \in BOOLEAN
    /\ UNCHANGED <<redisData, nodeCache, cacheStats, clock, cacheCall, httpRes, cacheCalls,
                   lastSet, getCalls, setCalls>>
    /\ UNCHANGED exceptCache

\* time passes
CacheTick ==
    /\ clock < MaxClock
    /\ clock' = clock + 1
    /\ UNCHANGED <<redisConnected, redisData, nodeCache, cacheStats, cacheCall, httpRes,
                   cacheCalls, lastSet, getCalls, setCalls>>
    /\ UNCHANGED exceptCache

\* prisma.price.findMany({ where, ... }) and prisma.price.count({ where }) on the table
priceFindMany(db, query) ==
    LET rows == {row \in db.price : query.region # Null => row.region = query.region}
    IN  CHOOSE list \in [1..Cardinality(rows) -> rows] : \A row \in rows : \E n \in DOMAIN list : list[n] = row

\* getLatestPrices(req, res, next): cacheUtils.get is called and not awaited, so
\* cachedData is the promise of the call
getLatestPrices ==
    \E query \in CacheQueries :
        LET pageNum == IF query.page = Null THEN 1 ELSE parseInt(query.page)
            limit == IF query.limit = Null THEN 50 ELSE parseInt(query.limit)
            limitNum == IF limit < 100 THEN limit ELSE 100
            skip == (pageNum - 1) * limitNum
            cacheKey == cacheKeyOf(query)
            cachedData == [promise |-> "cacheUtils.get"]
            prices == priceFindMany(prisma, query)
            response == createPaginatedResponse(slice(prices, skip, skip + limitNum), pageNum,
                                                limitNum, Len(prices))
            stored == IF Live(lastSet, cacheKey) THEN <<lastSet[cacheKey].value>> ELSE Null
        IN  /\ CacheCall("get", cacheKey, Null)
            /\ httpRes' = IF cachedData # Null
                          THEN [cacheKey |-> cacheKey, stored |-> stored, queried |-> response,
                                json |-> JSONstringify(cachedData).json]
                          ELSE [cacheKey |-> cacheKey, stored |-> stored, queried |-> response,
                                json |-> JSONstringify(response).json]
            /\ UNCHANGED clock

NextCache ==
    \/ CacheGet
    \/ CacheSet
    \/ CacheDel
    \/ CacheFlush
    \/ RedisAnswers
    \/ RedisRejects
    \/ RedisEvent
    \/ CacheTick
    \/ getLatestPrices

SpecCache == Init /\ [][NextCache]_vars

-----------------------------------------------------------------------------
(* The scheduler: scheduleScrapers, the cron job and the scraper status *)

(* Time is counted in hours from a midnight of Asia/Manila, the timezone of *)
(* the cron job; the Date methods of scheduleScrapers work in the local     *)
(* time of the server, which is ahead of Manila by timezone hours (0: a     *)
(* server in Manila; -8: a server on UTC).  An instant is kept as its hour: *)
(* toISOString keeps the order of instants.                                 *)

HoursOfDay == 24
CronHour == 7
MaxHour == 56
Timezones == {0, -8}

\* const nextRun = new Date(now); nextRun.setHours(7, 0, 0, 0);
\* if (nextRun <= now) nextRun.setDate(nextRun.getDate() + 1)
nextRunAfter(at, offset) ==
    LET local == at + offset
        setHours == local - (local % HoursOfDay) + CronHour
        nextRun == IF setHours <= local THEN setHours + HoursOfDay ELSE setHours
    IN  nextRun - offset

\* the server starts: scheduleScrapers()
scheduleScrapers ==
    /\ ~scheduled
    /\ scheduled' = TRUE
    /\ timezone' \in Timezones
    /\ nextScraperRun' = <<nextRunAfter(hour, timezone')>>
    /\ cronRan' = hour
    /\ UNCHANGED <<hour, lastScraperRun, statusRes>>
    /\ UNCHANGED exceptCron

\* an hour passes
HourPasses ==
    /\ hour < MaxHour
    /\ scheduled => (hour % HoursOfDay = CronHour => cronRan = hour)
    /\ hour' = hour + 1
    /\ UNCHANGED <<timezone, scheduled, cronRan, lastScraperRun, nextScraperRun, statusRes>>
    /\ UNCHANGED exceptCron

\* cron.schedule('0 7 * * *', ..., { timezone: 'Asia/Manila' }): the job of 07:00;
\* the run of the scrapers leaves the globals of the scheduler alone, and what
\* it throws is caught
CronJob ==
    /\ scheduled
    /\ hour % HoursOfDay = CronHour
    /\ cronRan # hour
    /\ cronRan' = hour
    /\ lastScraperRun' = <<hour>>
    /\ UNCHANGED <<hour, timezone, scheduled, nextScraperRun, statusRes>>
    /\ UNCHANGED exceptCron

\* POST /v1/admin/scrape: after the run, global.lastScraperRun = new Date().toISOString()
ManualScrape ==
    /\ scheduled
    /\ lastScraperRun' = <<hour>>
    /\ UNCHANGED <<hour, timezone, scheduled, cronRan, nextScraperRun, statusRes>>
    /\ UNCHANGED exceptCron

\* GET /v1/admin/scrape/status
ScrapeStatus ==
    /\ scheduled
    /\ statusRes' = [lastRun |-> lastScraperRun, nextRun |-> nextScraperRun, asked |-> hour]
    /\ UNCHANGED <<hour, timezone, scheduled, cronRan, lastScraperRun, nextScraperRun>>
    /\ UNCHANGED exceptCron

NextCron == scheduleScrapers \/ HourPasses \/ CronJob \/ ManualScrape \/ ScrapeStatus

SpecCron == Init /\ [][NextCron]_vars

-----------------------------------------------------------------------------
(* Properties of the records the parsers emit *)

\* C1: every range record pushed by parseNCRFormat, parseRXFormat or
\* parseGenericFormat, whatever the lines, has 0 < minPrice <= maxPrice: a
\* candidate with an inverted or a non-positive bound is dropped and the
\* parse goes on to its return.
C1_RangeBounds ==
    \A n \in 1..Len(priceRanges) :
        /\ 0 < priceRanges[n].minPrice
        /\ priceRanges[n].minPrice <= priceRanges[n].maxPrice

\* parseNCRFormat has returned from a line with a non-positive and an inverted
\* candidate followed by a line with a valid one: only the valid one is there
C1_DroppedAndKept ==
    /\ pc = "returned" /\ fn = "NCR"
    /\ lines = <<Str("0.00-8.0048.00-45.00"), Str("45.00-48.00")>>
    /\ Len(priceRanges) = 1
    /\ priceRanges[1].minPrice = 4500 /\ priceRanges[1].maxPrice = 4800

\* whether the fraction avg = <<numerator, denominator>> is (min + max) / 2
IsMidpoint(avg, min, max) == 2 * avg[1] = avg[2] * (min + max)

C3_PositivePrice ==
    \A n \in 1..Len(results) :
        /\ results[n].price > 0
        /\ fn = "Generic" => results[n].price < 10000 * 100

\* C5: what a call of a region parser (NCR, RX, generic, DOE) returns is what
\* the parser yields on the lines, the region and the date of the call from
\* empty rolling state, whichever calls came before: two calls with the same
\* arguments return the same records in the same order.
C5_HistoryFree ==
    (pc = "returned" /\ fn \in {"NCR", "RX", "Generic", "DOE"}) =>
        [results |-> results, priceRanges |-> priceRanges]
          = IF fn = "DOE"
            THEN [results |-> DOEextractPricesFromText(lines, region, date),
                  priceRanges |-> <<>>]
            ELSE DAextractPricesFromText(lines, region, date)

\* parseNCRFormat, called after an NCR bulletin that had left a market behind,
\* has returned a record with no market
C5_AfterAnotherBulletin ==
    /\ pc = "returned" /\ fn = "NCR" /\ stale
    /\ lines = <<Str("45.00-48.00")>>
    /\ Len(priceRanges) = 1
    /\ priceRanges[1].market = <<>>
    /\ priceRanges[1].commodity = Str("Rice")

\* the records pushed by the step from this state to the next
NewRanges == SubSeq(priceRanges', Len(priceRanges) + 1, Len(priceRanges'))
NewResults == SubSeq(results', Len(results) + 1, Len(results'))

\* the last of the first n lines that contains a known market name, '' if none
RECURSIVE LastMarketLine(_, _)
LastMarketLine(ls, n) ==
    IF n = 0 THEN <<>>
    ELSE IF isMarketName(trim(ls[n])) THEN trim(ls[n])
    ELSE LastMarketLine(ls, n - 1)

\* C6: in the NCR parser a line that contains a known market name sets
\* currentMarket to that line and pushes no record, even when it holds a
\* range; every record pushed on another line carries as market the most
\* recent market line, with commodity "Rice at <market>", or the empty market
\* and commodity "Rice" when no market line came before.
C6_MarketOfRecords ==
    [][(pc = "loop" /\ fn = "NCR" /\ i' = i + 1) =>
         LET market == LastMarketLine(lines, i - 1)
         IN IF isMarketName(trim(lines[i]))
            THEN currentMarket' = trim(lines[i]) /\ NewRanges = <<>>
            ELSE /\ currentMarket' = market
                 /\ \A n \in 1..Len(NewRanges) :
                      /\ NewRanges[n].market = market
                      /\ NewRanges[n].commodity =
                             IF market = <<>> THEN Str("Rice") ELSE Str("Rice at ") \o market
      ]_vars

\* parseNCRFormat has returned from a market line, a second market line that
\* holds a range, and a range: one record, of the second market
C6_SecondMarket ==
    /\ pc = "returned" /\ fn = "NCR"
    /\ lines = <<Str("Balintawak (Cloverleaf) Market"), Str(" Quiapo market 45.00-48.00"),
                 Str("45.00-48.00")>>
    /\ Len(priceRanges) = 1
    /\ priceRanges[1].market = Str("Quiapo market 45.00-48.00")
    /\ priceRanges[1].commodity = Str("Rice at Quiapo market 45.00-48.00")

\* C7: in the NCR parser a line without a market name made of k valid ranges
\* printed with no separator, k = 1, 2 or 4, yields exactly k records, and the
\* lines "Balintawak (Cloverleaf) Market", "45.00-48.00" yield exactly one.
C7_OnePerRange ==
    (pc = "returned" /\ fn = "NCR") =>
        /\ lines = <<Str("45.00-48.00")>> => Len(priceRanges) = 1
        /\ lines = <<Str("45.00-48.007.00-8.00")>> => Len(priceRanges) = 2
        /\ lines = <<Str("37.00-45.00140.00-150.00180.00-200.007.00-7.80")>>
              => Len(priceRanges) = 4
        /\ lines = <<Str("Balintawak (Cloverleaf) Market"), Str("45.00-48.00")>>
              => Len(priceRanges) = 1

\* the two-decimal numbers of the line with a value in (0, 200], left to right
PricesInRange(line) ==
    LET Values(ms) == [n \in 1..Len(ms) |-> parseFloat(Matched(ms[n], line))]
        InRange(v) == 0 < v /\ v <= 200 * 100
    IN SelectSeq(Values(ExecAll(FuelPricePattern, line)), InRange)

\* a step of the DOE parser with a fuel type active pushes one "per liter"
\* record of that fuel type for each number of PricesInRange, in order, and
\* nothing else; with skipping, a line that contains "page", "none" or
\* "monitoring" in any letter case pushes nothing
OneRecordPerPrice(skipping) ==
    (pc = "loop" /\ fn = "DOE" /\ i' = i + 1 /\ currentFuelType # Null) =>
        LET line == trim(lines[i])
            skipped == /\ skipping
                       /\ \E w \in {Str("page"), Str("none"), Str("monitoring")} :
                              includes(toLowerCase(line), w)
            expected == IF skipped THEN <<>> ELSE PricesInRange(line)
        IN /\ Len(NewResults) = Len(expected)
           /\ \A n \in 1..Len(expected) :
                /\ NewResults[n].commodity = currentFuelType
                /\ NewResults[n].unit = Str("per liter")
                /\ NewResults[n].price = expected[n]

\* C8 as stated: while a fuel type is active, every two-decimal number in
\* (0, 200] of every line becomes exactly one "per liter" record of the active
\* fuel type, in line order then left to right; other numbers produce none.
C8_EveryLine == [][OneRecordPerPrice(FALSE)]_vars

\* C8, amended: the same on the lines that contain none of "page", "none",
\* "monitoring" (in any letter case); a line that contains one produces no
\* record at all.
C8_EveryLineButSkipped == [][OneRecordPerPrice(TRUE)]_vars

\* the DOE parser has returned from a header, a line of two numbers in range
\* and a line with one number out of range and one that is zero
C8_TwoOfOneLine ==
    /\ pc = "returned" /\ fn = "DOE"
    /\ lines = <<Str("RON 95"), Str("58.4961.00"), Str("250.00 0.00")>>
    /\ Len(results) = 2
    /\ results[1].price = 5849 /\ results[2].price = 6100
    /\ results[1].commodity = Str("RON 95") /\ results[2].unit = Str("per liter")

\* a fuel-type header line: RON <n>, DIESEL, DIESEL PLUS or KEROSENE in any letter case
IsFuelHeader(line) ==
    LET upper == toUpperCase(line)
    IN \/ upper \in {Str("DIESEL"), Str("DIESEL PLUS"), Str("KEROSENE")}
       \/ /\ Len(upper) > 4
          /\ SubSeq(upper, 1, 4) = Str("RON ")
          /\ \A n \in 5..Len(upper) : upper[n] \in Digits

\* the last fuel-type header line among the first n lines, '' if none
RECURSIVE LastFuelHeader(_, _)
LastFuelHeader(ls, n) ==
    IF n = 0 THEN <<>>
    ELSE IF IsFuelHeader(trim(ls[n])) THEN trim(ls[n])
    ELSE LastFuelHeader(ls, n - 1)

\* no fuel type is active after the first n lines: there is no header among
\* them, or a line that is exactly PROVINCE, CITY, MUNICIPALITY or PRODUCT
\* with no header after it
RECURSIVE NoFuelActive(_, _)
NoFuelActive(ls, n) ==
    IF n = 0 THEN TRUE
    ELSE IF IsFuelHeader(trim(ls[n])) THEN FALSE
    ELSE IF trim(ls[n]) \in {Str("PROVINCE"), Str("CITY"), Str("MUNICIPALITY"), Str("PRODUCT")}
         THEN TRUE
    ELSE NoFuelActive(ls, n - 1)

\* C9: in the DOE parser a fuel-type header line pushes no record; no record
\* is pushed while no fuel type is active; and the commodity of every record
\* pushed is the upper-cased text of the most recent header line.
C9_FuelOfRecords ==
    [][(pc = "loop" /\ fn = "DOE" /\ i' = i + 1) =>
         /\ IsFuelHeader(trim(lines[i])) => NewResults = <<>>
         /\ NoFuelActive(lines, i - 1) => NewResults = <<>>
         /\ \A n \in 1..Len(NewResults) :
              NewResults[n].commodity = toUpperCase(LastFuelHeader(lines, i - 1))
      ]_vars

\* the DOE parser has returned from a header, a second header in lower case
\* and a line of two prices: two records, of the second fuel type in upper case
C9_SecondHeader ==
    /\ pc = "returned" /\ fn = "DOE"
    /\ lines = <<Str("RON 95"), Str("diesel plus"), Str("58.4961.00")>>
    /\ Len(results) = 2
    /\ results[1].commodity = Str("DIESEL PLUS")
    /\ results[2].commodity = Str("DIESEL PLUS")

\* C10: in the generic DA parser a line "commodity min-max" or "commodity min
\* max" (alphabetic commodity that is no header, 0 < min <= max) yields exactly
\* one range record with these bounds and no single-price record, and a line
\* "commodity unit price" yields a record whose unit is the unit of the line.
C10_RangeAndUnitShapes ==
    (pc = "returned" /\ fn = "Generic" /\ Len(lines) = 1) =>
        /\ lines[1] \in {Str("Rice 45.50-55.75"), Str("Rice 45.50 55.75")} =>
              /\ results = <<>>
              /\ Len(priceRanges) = 1
              /\ priceRanges[1].minPrice = 4550 /\ priceRanges[1].maxPrice = 5575
        /\ lines[1] = Str("Milk liter 50.00") =>
              /\ Len(results) = 1
              /\ results[1].unit = Str("liter")

-----------------------------------------------------------------------------
(* Properties of the orchestrators *)

\* the records of one kind ("results" or "priceRanges") that a discovered file
\* holds for the running orchestrator, tagged with its filename; none when the
\* file cannot be read or decoded
RecordsOfFile(file, kind) ==
    LET Tagged(records) ==
            [n \in 1..Len(records) |-> [records[n] EXCEPT !.filename = file.filename]]
    IN IF file.failure # "none" THEN <<>>
       ELSE IF bfn = "DA"
            THEN Tagged(DAextractPricesFromText(
                            file.lines, file.region,
                            DAextractDateFromFilename(file.filename))[kind])
       ELSE IF kind = "results"
            THEN Tagged(DOEextractPricesFromText(
                            file.lines, file.region,
                            DOEextractDateFromFilename(file.filename)))
       ELSE <<>>

RECURSIVE RecordsOfFiles(_, _)
RecordsOfFiles(files, kind) ==
    IF files = <<>> THEN <<>>
    ELSE RecordsOfFile(Head(files), kind) \o RecordsOfFiles(Tail(files), kind)

\* the names of the files that cannot be read or decoded, in order
FailingFiles(files) ==
    LET Fails(file) == file.failure # "none"
        failing == SelectSeq(files, Fails)
    IN [n \in 1..Len(failing) |-> failing[n].filename]

\* C4: whatever the discovered files and whichever of them fail to be read or
\* decoded, parseAllDAPDFs / parseAllDOEPDFs runs to its return, and what it
\* has aggregated after each file is the concatenation, in discovery order, of
\* the records of the files that did not fail, each tagged with its filename;
\* a failing file adds no record and one logged failure, and the files after
\* it are processed.
C4_Isolation ==
    /\ [](bpc # "idle" =>
            LET done == SubSeq(pdfs, 1, k - 1)
            IN /\ allResults = RecordsOfFiles(done, "results")
               /\ allPriceRanges = RecordsOfFiles(done, "priceRanges")
               /\ [n \in 1..Len(consoleError) |-> consoleError[n].filename]
                    = FailingFiles(done)
               /\ bpc = "returned" => k = Len(pdfs) + 1)
    /\ (bpc = "loop" ~> bpc = "returned")

\* parseAllDAPDFs has returned from three files of which the second cannot be
\* read or decoded: the records of the first and the third, one logged failure
C4_SecondOfThreeFails ==
    /\ bpc = "returned" /\ bfn = "DA"
    /\ Len(pdfs) = 3
    /\ pdfs[1].failure = "none" /\ pdfs[2].failure # "none" /\ pdfs[3].failure = "none"
    /\ pdfs[1].region = Str("NCR") /\ pdfs[3].region = Str("Region III")
    /\ Len(allPriceRanges) = 1 /\ allPriceRanges[1].filename = pdfs[1].filename
    /\ Len(allResults) = 2 /\ allResults[1].filename = pdfs[3].filename
    /\ Len(consoleError) = 1 /\ consoleError[1].filename = pdfs[2].filename

-----------------------------------------------------------------------------
(* Properties of the RX data lines and of the header filters *)

\* C11: in the RX parser a line of six concatenated prices yields exactly one
\* range record, from the minimum to the maximum of the six, and a line from
\* which fewer than two numbers are extracted yields none.
C11_OnePerSixPrices ==
    (pc = "returned" /\ fn = "RX") =>
        /\ lines = <<Str("48.0050.0050.0050.0050.0050.00")>> =>
              /\ Len(priceRanges) = 1
              /\ priceRanges[1].minPrice = 4800 /\ priceRanges[1].maxPrice = 5000
        /\ lines = <<Str("Well milled")>> => priceRanges = <<>>

\* C14: no record of the generic parser has a commodity shorter than 2
\* characters or containing page, monitoring, price, date, region or province
\* in any letter case, and none of the DTI parser one shorter than 2 characters
\* or containing page, srp or bulletin; a DTI line pushes at most one record,
\* the one of the first of the four shapes that matches the line.
C14_NoHeaderCommodity ==
    [][ LET Has(commodity, words) ==
                \E w \in words : includes(toLowerCase(commodity), w)
            Clean(records, words) ==
                \A n \in 1..Len(records) :
                    Len(records[n].commodity) >= 2 /\ ~Has(records[n].commodity, words)
            OfShape(line, found) ==
                IF found.patternIndex = 0 THEN {<<>>}
                ELSE LET f == DTIFields(found.patternIndex, found.match, line)
                     IN {<<>>, <<DTIResult(collapseWhiteSpace(trim(f.commodity)),
                                           f.unit, f.price)>>}
        IN /\ fn' = "Generic" =>
                  /\ Clean(results', {Str("page"), Str("monitoring"), Str("price"),
                                      Str("date"), Str("region"), Str("province")})
                  /\ Clean(priceRanges', {Str("page"), Str("monitoring"), Str("price"),
                                          Str("date"), Str("region"), Str("province")})
           /\ fn' = "DTI" => Clean(results', {Str("page"), Str("srp"), Str("bulletin")})
           /\ (pc = "loop" /\ pc' = "loop" /\ fn = "DTI") =>
                  NewResults \in OfShape(trim(lines[i]),
                                         FirstMatch(LINE_PATTERNS, 1, trim(lines[i])))
      ]_vars

\* parseDTIPDF has returned from a bulletin line and a line with one price: the
\* bulletin line gave no record
C14_HeaderLineSkipped ==
    /\ pc = "returned" /\ fn = "DTI"
    /\ lines = <<Str("SRP Bulletin 2025"), Str("Sugar 1kg 45.00")>>
    /\ Len(results) = 1
    /\ results[1].commodity = Str("Sugar")

-----------------------------------------------------------------------------
(* Properties of the utility functions *)

\* a-b-c
Dashed(a, b, c) == a \o <<"-">> \o b \o <<"-">> \o c

\* C12: the first pattern of extractDateFromFilename (DA and DOE) that matches
\* the filename determines the date: a numeric pattern gives year-month-day
\* from its own groups (6/26/2025 gives 2025-06-26), and the year of the date
\* is the year the first matching pattern captured, never that of a later
\* pattern or of the default date.
C12_FirstPatternDecides ==
    LET Year(n) == IF n \in {2, 5} THEN 1 ELSE IF n \in {8, 9} THEN 2 ELSE 3
        Decided(n, m) ==
            /\ n \in {1, 2, 3, 4, 5} =>
                   ret = IF Len(Group(m, arg, 1)) = 4
                         THEN Dashed(Group(m, arg, 1), Group(m, arg, 2), Group(m, arg, 3))
                         ELSE Dashed(Group(m, arg, 3), padStart2(Group(m, arg, 1)),
                                     padStart2(Group(m, arg, 2)))
            /\ n \in {1, 2, 3, 4, 5, 6, 8, 9} /\ Len(Group(m, arg, 1)) # 4 =>
                   SubSeq(ret, 1, 4) = Group(m, arg, Year(n))
        First(found) == found.patternIndex > 0 => Decided(found.patternIndex, found.match)
    IN /\ op = "DAextractDateFromFilename" => First(FirstMatch(DADatePatterns, 1, arg))
       /\ op = "DOEextractDateFromFilename" => First(FirstMatch(DOEDatePatterns, 1, arg))
       /\ (op \in {"DAextractDateFromFilename", "DOEextractDateFromFilename"}
             /\ arg = Str("6/26/2025")) => ret = Str("2025-06-26")

\* C13: for a filename that matches no numeric date pattern and holds April or
\* June, a day number and a four-digit year, the DA extractDateFromFilename
\* returns year-month-day of that year, month and day; and what it returns
\* always has the form YYYY-MM-DD.
C13_MonthNameDate ==
    LET Numeric == \E n \in {1, 2, 3, 4, 5, 7} : Exec(DADatePatterns[n], arg).ok
        Named(m, month) ==
            m.ok => ret = Dashed(Group(m, arg, 2), month, padStart2(Group(m, arg, 1)))
        IsDate(s) ==
            /\ Len(s) = 10
            /\ \A n \in 1..10 : IF n \in {5, 8} THEN s[n] = "-" ELSE s[n] \in Digits
    IN op = "DAextractDateFromFilename" =>
           /\ IsDate(ret)
           /\ ~Numeric => /\ Named(Exec(DADatePatterns[8], arg), Str("04"))
                          /\ Named(Exec(DADatePatterns[9], arg), Str("06"))

\* C15: extractUnit answers "per liter" because of the letter "l" only when
\* the trimmed, lower-cased text is exactly "l" or "per l": a text without
\* "liter" and "litro" that is not exactly "l" or "per l" ("per loaf",
\* "per lb", "bundles") is never mapped to "per liter".
C15_LiterOnlyAsWholeToken ==
    op = "extractUnit" /\ ret = Str("per liter") =>
        LET lowerText == trim(toLowerCase(arg))
        IN  \/ includes(lowerText, Str("liter"))
            \/ includes(lowerText, Str("litro"))
            \/ lowerText = Str("l")
            \/ lowerText = Str("per l")

\* C16: when variants of several standard units match a text, extractUnit
\* answers the standard unit of a longest matching variant ("dozen pc" is
\* "per dozen"); when no variant matches it answers "per unit".
C16_LongestVariantWins ==
    op = "extractUnit" /\ arg # <<>> =>
        LET lowerText == trim(toLowerCase(arg))
            some == {v \in {<<n, j>> : n \in 1..Len(unitMap), j \in 1..5} :
                        /\ v[2] <= Len(unitMap[v[1]][2])
                        /\ VariantMatches(unitMap[v[1]][2][v[2]], lowerText)}
            longest == {v \in some :
                           \A o \in some :
                               Len(unitMap[o[1]][2][o[2]]) <= Len(unitMap[v[1]][2][v[2]])}
        IN  IF some = {}
            THEN ret = Str("per unit")
            ELSE \E v \in longest : ret = unitMap[v[1]][1]

\* C17: normalizeRegion answers every text, whatever its case: the canonical
\* name of the key the trimmed, lower-cased text is, the trimmed text itself
\* when it is no key, "" for the empty text; and normalizing its answer again
\* changes nothing.
C17_RegionTotalIdempotent ==
    op = "normalizeRegion" =>
        LET normalized == toLowerCase(trim(arg))
            keys == {n \in 1..Len(regionMap) : regionMap[n][1] = normalized}
            isString == \A n \in 1..Len(ret) : ret[n] \in Chars
        IN  /\ arg = <<>> => ret = <<>>
            /\ arg # <<>> /\ keys # {} => \A n \in keys : ret = regionMap[n][2]
            /\ arg # <<>> /\ keys = {} => ret = trim(arg)
            /\ isString
            /\ isString => normalizeRegion(ret) = ret

\* C18: validatePriceData answers null when its argument is no object, lacks
\* commodity, price or region, has a price that is not a positive number (no
\* number, zero, or negative) or has an invalid date; otherwise it answers a
\* record with that positive price and the normalized commodity, region, unit
\* and source.
C18_NullUnlessValid ==
    op = "validatePriceData" =>
        LET o == arg.fields[1]
            written == IF IsNumber(o.price) THEN NumberToString(o.price[2]) ELSE o.price
            negative == written # <<>> /\ Head(written) = "-"
            unsigned == IF negative THEN Tail(written) ELSE written
            numeral == trimStart(IF unsigned # <<>> /\ Head(unsigned) \in {"₱", "P"}
                                 THEN Tail(unsigned) ELSE unsigned)
            isNumeral == /\ numeral # <<>>
                         /\ Head(numeral) \in Digits
                         /\ \A n \in 1..Len(numeral) : numeral[n] \in Digits \cup {",", "."}
            value == parseFloat(SelectSeq(numeral, LAMBDA c : c # ","))
            positive == isNumeral /\ ~negative /\ value > 0
            invalid == \/ arg.typeof # "object"
                       \/ arg.fields = <<>>
                       \/ o.commodity = Null \/ o.price = Null \/ o.region = Null
                       \/ ~positive
                       \/ isNaNDate(o.date)
        IN  IF invalid THEN ret = Null
            ELSE /\ ret # Null
                 /\ ret[1].price = value
                 /\ ret[1].commodity = normalizeCommodityName(o.commodity)
                 /\ ret[1].region = normalizeRegion(o.region)
                 /\ ret[1].unit = extractUnit(o.unit)
                 /\ ret[1].source = normalizeSource(o.source)

-----------------------------------------------------------------------------
(* Properties of the web server *)

\* C19: a limiter created with limit max passes, for each key and window, at
\* most max requests to next(); a request that comes when it has passed max
\* in the window is answered 429 with success false and is not counted; a
\* request it passes is counted whatever status the route answers; and the
\* X-RateLimit-Remaining of a request it passes is max less the requests it
\* has passed in the window, never negative.
C19_AtMostMaxPerWindow ==
    [][ LET key == req'.ip
            admin == startsWith(toLowerCase(req'.originalUrl), Str("/v1/admin"))
            limiter == IF admin THEN "strictLimiter" ELSE "generalLimiter"
            max == IF admin THEN StrictMax ELSE GeneralMax
            reached == PublicRequest \/ (AdminRequest /\ apiKeyAuth(req').next)
            sameWindow == key \in DOMAIN rateLimitStore /\ now <= rateLimitStore[key].resetTime
            before == IF sameWindow THEN rateLimitStore[key].count ELSE 0
            passedNow == IF <<limiter, key>> \in DOMAIN passed' THEN passed'[<<limiter, key>>] ELSE 0
        IN  reached =>
                /\ passedNow <= max
                /\ sameWindow /\ Passed(limiter, key) >= max =>
                       /\ res'.status = 429 /\ ~res'.success /\ res'.handler = "none"
                       /\ rateLimitStore'[key].count = before
                /\ res'.handler # "none" =>
                       /\ rateLimitStore'[key].count = before + 1
                       /\ res'.remaining = <<max - passedNow>>
                       /\ res'.remaining[1] >= 0 ]_vars

\* C20 as claimed: a request to a URL starting with /v1/admin reaches the
\* admin routes only with a key (the x-api-key header, or the Authorization
\* header without its prefix "Bearer ") equal to ADMIN_API_KEY; without a key
\* it is answered 401, with API_KEY 403, with any other key 401, and no
\* answered request reaches the admin routes.
C20_AdminKeyOnly_asClaimed ==
    req # <<>> /\ startsWith(req.originalUrl, Str("/v1/admin")) =>
        LET bearer == req.headers.authorization
            key == IF req.headers.xApiKey # <<>> THEN req.headers.xApiKey
                   ELSE IF startsWith(bearer, Str("Bearer ")) THEN SubSeq(bearer, 8, Len(bearer))
                   ELSE bearer
            proceeded == res.handler = "adminRoutes" \/ res.status = 429
        IN  /\ proceeded => key = ADMIN_API_KEY
            /\ key = <<>> => res.status = 401 /\ res.handler = "none"
            /\ key = API_KEY => res.status = 403 /\ res.handler = "none"
            /\ key \notin {<<>>, API_KEY, ADMIN_API_KEY} => res.status = 401 /\ res.handler = "none"

\* C20, amended: the key is the x-api-key header or else the Authorization
\* header without its first "Bearer "; the request goes on to the limiter and
\* the admin routes exactly when the key is ADMIN_API_KEY; without a key it is
\* answered 401, with API_KEY or the literal "test-key" 403, with any other
\* key 401, and no answered request reaches the admin routes.
C20_AdminKeyOnly ==
    req # <<>> /\ startsWith(req.originalUrl, Str("/v1/admin")) =>
        LET key == IF req.headers.xApiKey # <<>> THEN req.headers.xApiKey
                   ELSE removeFirst(req.headers.authorization, Str("Bearer "))
            proceeded == res.handler = "adminRoutes" \/ res.status = 429
            Answered(status) == res.status = status /\ ~res.success /\ res.handler = "none"
        IN  /\ proceeded <=> key = ADMIN_API_KEY
            /\ key = <<>> => Answered(401)
            /\ key \in {API_KEY, Str("test-key")} => Answered(403)
            /\ key \notin {<<>>, API_KEY, Str("test-key"), ADMIN_API_KEY} => Answered(401)

\* C20 witness: a request to /v1/admin/test with the key "test-key" has been
\* answered 403 without reaching the admin routes
C20_TestKeyForbidden ==
    /\ req # <<>>
    /\ req.originalUrl = Str("/v1/admin/test")
    /\ req.headers.xApiKey = Str("test-key")
    /\ res.status = 403
    /\ res.handler = "none"

-----------------------------------------------------------------------------
(* Properties of the price-range endpoint *)

\* C21: for a page >= 1 and a requested limit >= 1 (50 and 1 where the query
\* has none), getDAPriceRanges answers with the limit min(limit, 100), with
\* exactly the artifact's records at the positions (page-1)*limit ..
\* page*limit-1, in order, so that the pages 1..totalPages one after the other
\* are the artifact; and with totalPages = ceil(total/limit), hasNext iff
\* page < totalPages, hasPrev iff page > 1.
C21_PagesPartitionArtifact ==
    op = "getDAPriceRanges" =>
        LET allRanges == arg.allRanges
            total == Len(allRanges)
            page == IF arg.query.page = Null THEN 1 ELSE parseInt(arg.query.page)
            asked == IF arg.query.limit = Null THEN 50 ELSE parseInt(arg.query.limit)
            limit == IF asked <= 100 THEN asked ELSE 100
            positions == {n \in 1..total : (page - 1) * limit <= n - 1 /\ n - 1 <= page * limit - 1}
            totalPages == CHOOSE c \in 0..total : c * limit >= total /\ (c - 1) * limit < total
            Data(p) == getDAPriceRanges(allRanges, [page |-> IntToString(p), limit |-> arg.query.limit]).data
        IN  /\ ret.pagination.limit = limit
            /\ ret.pagination.total = total
            /\ Len(ret.data) = Cardinality(positions)
            /\ \A j \in 1..Len(ret.data) : ret.data[j] = allRanges[(page - 1) * limit + j]
            /\ \A p \in 1..totalPages :
                   /\ Len(Data(p)) = IF p < totalPages THEN limit ELSE total - (p - 1) * limit
                   /\ \A j \in 1..Len(Data(p)) : Data(p)[j] = allRanges[(p - 1) * limit + j]
            /\ ret.pagination.totalPages = totalPages
            /\ ret.pagination.hasNext <=> page < totalPages
            /\ ret.pagination.hasPrev <=> page > 1

\* C21 witness: the second page of three, with limit 2, of the artifact of
\* five records holds the records 3 and 4
C21_MiddlePage ==
    /\ op = "getDAPriceRanges"
    /\ Len(arg.allRanges) = 5
    /\ arg.query = [page |-> Str("2"), limit |-> Str("2")]
    /\ ret.data = <<3, 4>>
    /\ ret.pagination.totalPages = 3
    /\ ret.pagination.hasNext /\ ret.pagination.hasPrev


(* Properties of the debug flag *)

\* what a parser returns on its lines, region and date, computed with no debug
\* argument at all
RecordsOf(f, ls, reg, dt) ==
    CASE f = "NCR" -> parseNCRFormat(ls, reg, dt)
      [] f = "RX" -> parseRXFormat(ls, reg, dt)
      [] f = "Generic" -> parseGenericFormat(ls, reg, dt)
      [] f = "DOE" -> [results |-> DOEextractPricesFromText(ls, reg, dt), priceRanges |-> <<>>]
      [] OTHER -> [results |-> parseDTILines(ls), priceRanges |-> <<>>]

\* C22: the debug flag does not influence results. At every moment, a
\* returned call of the NCR, RX, generic, DOE or DTI parser with debug = true
\* holds the records that the parser computes from its lines, region and date
\* with no debug argument, so the call with debug = true and the call with
\* debug = false return the same lists; and a call without debug has logged
\* nothing.
C22_DebugDoesNotAlterRecords ==
    [](/\ pc = "returned" /\ debug =>
            [results |-> results, priceRanges |-> priceRanges] = RecordsOf(fn, lines, region, date)
       /\ ~debug => consoleLog = 0)

\* a DTI call with debug on has returned a record, having logged the three
\* lines of the text, the line it processed and the match
C22_DebugCallReturned ==
    /\ pc = "returned" /\ fn = "DTI" /\ debug
    /\ lines = <<Str("Sugar 1kg 45.00")>>
    /\ Len(results) = 1
    /\ consoleLog = 5

-----------------------------------------------------------------------------
(* Properties of the scrapers *)

\* the key under which the database after a call holds, or would hold, a record
EntryOf(db, priceData) ==
    <<commodityFindFirst(db, priceData.commodity)[1].id, priceData.region,
      priceData.date.day, priceData.source>>

\* the record can be a row: its commodity exists and its price fits the column
Storable(db, priceData) ==
    /\ commodityFindFirst(db, priceData.commodity) # Null
    /\ priceData.price < DecimalLimit

\* C23: after any sequence of saveToDatabase calls of the DTI and the DA
\* scraper the table prices holds no two rows with the same commodityId,
\* region, date and source.  In every call a duplicate record is skipped and
\* not counted, the records after it are still saved (every storable record
\* of the call has its row after the call, and no row is lost), and the
\* count returned is the number of rows the call inserted.
C23_NoDuplicatePriceEntry ==
    /\ \A a, b \in prisma.price :
          unique_price_entry(a) = unique_price_entry(b) => a = b
    /\ \A n \in 1..Len(saves) :
          LET save == saves[n]
          IN  /\ save.before.price \subseteq save.after.price
              /\ save.savedCount
                   = Cardinality(save.after.price) - Cardinality(save.before.price)
              /\ \A m \in 1..Len(save.prices) :
                    Storable(save.after, save.prices[m]) =>
                        \E row \in save.after.price :
                            unique_price_entry(row) = EntryOf(save.after, save.prices[m])

\* the DTI scraper has saved a record of a day that has its row already,
\* with another price and time, and then a new one: one row was inserted and
\* counted, and the old row has kept its price
C23_DuplicateThenNew ==
    \E n \in 1..Len(saves) :
        /\ saves[n].prices = <<PriceData("Rice", 46, "NCR", "DTI", 1),
                               PriceData("Red Onion", 120, "NCR", "DTI", 0)>>
        /\ saves[n].savedCount = 1
        /\ Cardinality(saves[n].before.price) = 1
        /\ Cardinality(saves[n].after.price) = 2
        /\ \E row \in saves[n].after.price : row.price = 45

\* the counts saveToDatabase returned in this run, added up
RECURSIVE SavedTotal(_)
SavedTotal(calls) ==
    IF calls = <<>> THEN 0 ELSE Head(calls).savedCount + SavedTotal(Tail(calls))

-----------------------------------------------------------------------------
(* Properties of the files a parser run writes *)

\* the file holds exactly these records
Holds(path, records) == path \in DOMAIN outputDir /\ outputDir[path] = records

\* the files da_parser writes
DAArtifacts ==
    {path \in DOMAIN outputDir :
        \/ startsWith(path, Str("latest_prices_da"))
        \/ startsWith(path, Str("latest_price_ranges_da"))}

\* C24: when a DA parse run completes, the combined single-price artifact
\* and the combined price-range artifact are both written and hold exactly
\* the records of this run; for every region that has records, the
\* per-region artifact of each kind holds exactly that region's records of
\* that kind in their order; and no artifact holds a record of an earlier run.
C24_ArtifactsOfThisRun ==
    (mainRun # <<>> /\ mainRun.agency = "DA") =>
        /\ Holds(Str("latest_prices_da.json"), mainRun.results)
        /\ Holds(Str("latest_price_ranges_da.json"), mainRun.priceRanges)
        /\ \A n \in 1..Len(RegionsOf(mainRun.results \o mainRun.priceRanges)) :
              LET reg == RegionsOf(mainRun.results \o mainRun.priceRanges)[n]
              IN  /\ Holds(DARegionFile("latest_prices_da_", reg),
                           OfRegion(mainRun.results, reg))
                  /\ Holds(DARegionFile("latest_price_ranges_da_", reg),
                           OfRegion(mainRun.priceRanges, reg))
        /\ \A path \in DAArtifacts : \A n \in 1..Len(outputDir[path]) :
              \/ \E m \in 1..Len(mainRun.results) : mainRun.results[m] = outputDir[path][n]
              \/ \E m \in 1..Len(mainRun.priceRanges) :
                    mainRun.priceRanges[m] = outputDir[path][n]

-----------------------------------------------------------------------------
(* Properties of the cache *)

\* C25: getLatestPrices responds from the cache only when a response was
\* stored before under the cache key of the request (region, category,
\* limit, page); with nothing stored under the key it responds with the
\* paginated result of the query of the price store.
C25_CachedOnlyIfStored ==
    httpRes # <<>> =>
        \/ httpRes.json = httpRes.queried
        \/ httpRes.stored # Null /\ httpRes.json = httpRes.stored[1]

\* C28: whatever Redis connect, error and close events come between the
\* cache operations, a completed cacheUtils.get(k) has returned a miss or
\* the value of the most recent completed cacheUtils.set(k, v) that has not
\* been deleted, flushed or expired since; never an older value.
C28_GetNeverStale ==
    (cacheCall.op = "get" /\ cacheCall.stage = "done") =>
        \/ cacheCall.ret = Null
        \/ cacheCall.ret = cacheCall.expected

-----------------------------------------------------------------------------
(* Properties of the scraper status *)

\* C26: whenever the scraper status is asked after the server started, the
\* nextRun it answers is not in the past and is later than the lastRun it
\* answers, however many runs of 07:00 there have been.
C26_StatusNamesNextRun ==
    statusRes # <<>> =>
        /\ statusRes.nextRun[1] >= statusRes.asked
        /\ statusRes.lastRun # <<>> => statusRes.nextRun[1] > statusRes.lastRun[1]

-----------------------------------------------------------------------------
(* Properties of the store the rate limiters share *)

\* the requests any limiter has passed for key since the key's record was begun
PassedByAll(key) == Passed("generalLimiter", key) + Passed("strictLimiter", key)

\* C30: the limiters keep one record per client address in rateLimitStore:
\* the count of a client's record is the number of requests the general and
\* the strict limiter together have passed for the client in the window of
\* the record, a request reaches the admin routes only while that number is
\* below the strict limit, with X-RateLimit-Remaining the strict limit less
\* that number, it is answered 429 once that number has reached the strict
\* limit, and after clearRateLimitStore no client has a count for any limiter.
C30_OneRecordPerClient ==
    /\ DOMAIN rateLimitStore \subseteq Keys
    /\ \A key \in Keys :
           IF key \in DOMAIN rateLimitStore
           THEN rateLimitStore[key].count = PassedByAll(key)
           ELSE PassedByAll(key) = 0
    /\ res # <<>> /\ req.ip \in DOMAIN rateLimitStore =>
           LET admin == startsWith(toLowerCase(req.originalUrl), Str("/v1/admin"))
           IN  /\ res.handler = "adminRoutes" =>
                      /\ PassedByAll(req.ip) <= StrictMax
                      /\ res.remaining = <<StrictMax - PassedByAll(req.ip)>>
               /\ admin /\ res.status = 429 => PassedByAll(req.ip) >= StrictMax

\* an admin request with the admin key is answered 429 although the strict
\* limiter has passed no request of the client: the requests the general
\* limiter passed have used the strict limit up
C30_PublicUsesAdminBudget ==
    /\ res # <<>>
    /\ startsWith(req.originalUrl, Str("/v1/admin"))
    /\ apiKeyAuth(req).next
    /\ res.status = 429
    /\ Passed("strictLimiter", req.ip) = 0
    /\ Passed("generalLimiter", req.ip) >= StrictMax

====
